---- MODULE Spec2Model ----
(***************************************************************************)
(* Model of the dikto capture-to-transcript pipeline.                      *)
(*                                                                         *)
(*   DiktoEngine        crates/dikto-core/src/lib.rs    (orchestrator)     *)
(*   run_pipeline       crates/dikto-core/src/lib.rs    (capture loop)     *)
(*   AsrSession         crates/dikto-core/src/engine.rs (batch session)    *)
(*   VadProcessor       crates/sotto-core/src/vad.rs    (speech gate)      *)
(*   AudioCapture       crates/sotto-core/src/audio.rs  (ring buffer)      *)
(*   TranscribeSession  crates/sotto-core/src/transcribe.rs (sliding)  *)
(*                                                                         *)
(* Threads: caller threads invoking the DiktoEngine methods, one pipeline  *)
(* thread per accepted session, and the audio hardware callback.  Each     *)
(* action is one step of one thread between two accesses to shared state.  *)
(*                                                                         *)
(* Scaling.  Audio is modelled sample by sample, so the sample rate and    *)
(* the chunk size are scaled down (SampleRate, ChunkSize); every quantity  *)
(* the frame duration the code derives from them is derived from them     *)
(* here in the same way.  The buffer sizes the code fixes (one second of   *)
(* pre-speech, the four minute cap, the ring buffer capacity) are scaled   *)
(* down as well (PreSpeechSamples, FlushSamples, RbCapacity).              *)
(*                                                                         *)
(* Specifications.  Spec and SpecPipeline run the whole engine.  SpecGate, *)
(* SpecFilter, SpecQueue, SpecResample and SpecSliding drive one unit on   *)
(* its own (the speech gate, the text handling of flush, the ring buffer,  *)
(* the resampler of the input callback, the sliding-window session) while  *)
(* the engine is at rest.  SpecFrames drives the speech gate with the      *)
(* chunk size and sample rate of the code, unscaled.                       *)
(*                                                                         *)
(* External code (backend load and inference, audio device, VAD model)     *)
(* may return Ok, return Err or panic.  The callbacks are assumed to       *)
(* return without panicking.                                               *)
(***************************************************************************)
EXTENDS Integers, Sequences, FiniteSets, TLC

\* ------------------------------------------------------------------ bounds
NumCallers == 2      \* caller threads
MaxCalls == 3        \* DiktoEngine method calls per behaviour (Spec)
MaxSessions == 2     \* pipeline threads alive at the same time
FewSamples == 2      \* samples the device produces per behaviour (Spec)
MaxSamples == 8      \* samples the device produces per behaviour (SpecPipeline)
MaxPush == 2         \* samples pushed by one hardware callback
MaxPartials == 1     \* "Recording..." partials per session
SampleRate == 16     \* stands for 16000 Hz
ChunkSize == 2       \* stands for 512 samples
SamplesPerMs == 1    \* stands for the 16 samples of one millisecond
MaxFed == 6          \* samples fed to the sliding-window session (SpecSliding)
MaxSpeechFrames == 8 \* frames above the threshold per episode (SpecFrames)
MaxChunks == 6       \* chunks fed to the gate driven on its own (SpecGate)
RbCapacity == 3      \* buffer_capacity of the ring buffer driven on its own (SpecQueue)
MaxFrames == 4       \* frames one input callback is given (SpecResample)
MaxInput == 8        \* frames the device delivers per behaviour (SpecResample)
PreSpeechSamples == 4  \* stands for the 16000 samples of pre-speech audio kept
FlushSamples == 6    \* stands for the 4 * 60 * 16000 samples flush keeps

Callers == 1..NumCallers
Sessions == 1..MaxSessions

\* Model registry: names the registry knows and has on disk, and one it lacks.
ModelNames == {"parakeet", "whisper", "absent"}
Downloaded == {"parakeet", "whisper"}

\* ListenConfig.silence_duration_ms values passed by the callers.
SilenceChoices == {250}
\* Speech probabilities (percent) returned by the detector.
Probabilities == {0, 35, 90}

VARIABLES
    inner_lock,       \* DiktoEngine.inner mutex: 0 or the caller holding it
    inner_poisoned,   \* a holder of inner panicked
    engine,           \* Option<LoadedEngine>: "none" or the model name
    engine_lock,      \* engine mutex: 0 or the session holding it
    engine_poisoned,  \* a holder of the engine mutex panicked
    config_model,     \* inner.config.model_name
    recording,        \* inner.recording
    callers,          \* caller thread -> [pc, op, arg, silence, ret]
    calls_left,       \* method calls the callers will still make
    samples_left,     \* samples the device will still produce
    sess,             \* session -> pipeline thread state
    vad_unit,         \* a VadProcessor driven on its own
    rb_unit,          \* an AudioCapture ring buffer driven on its own
    resample_unit,    \* a build_stream input callback driven on its own
    flush_unit,       \* the text handling of AsrSession::flush driven on its own
    session_unit      \* a sliding-window TranscribeSession driven on its own

EngineVars == <<inner_lock, inner_poisoned, engine, engine_lock, engine_poisoned,
                config_model, recording, callers, calls_left, samples_left, sess>>
UnitVars == <<vad_unit, rb_unit, resample_unit, flush_unit, session_unit>>
vars == <<EngineVars, UnitVars>>

\* A unit that is not driven in this specification.
NotDriven == [driven |-> FALSE]
UnitsNotDriven ==
    /\ vad_unit = NotDriven
    /\ rb_unit = NotDriven
    /\ resample_unit = NotDriven
    /\ flush_unit = NotDriven
    /\ session_unit = NotDriven

\* ----------------------------------------------------------------- texts
\* A text is a sequence of characters.
Hello == <<"h", "i">>

hallucinations ==
    { <<"[","b","l","a","n","k","_","a","u","d","i","o","]">>,
      <<"[","m","u","s","i","c","]">>,
      <<"[","i","n","a","u","d","i","b","l","e","]">>,
      <<"[","s","i","l","e","n","c","e","]">>,
      <<"[","n","o"," ","s","p","e","e","c","h","]">>,
      <<"[","a","p","p","l","a","u","s","e","]">>,
      <<"[","l","a","u","g","h","t","e","r","]">>,
      <<"(","m","u","s","i","c",")">>,
      <<"(","s","i","l","e","n","c","e",")">>,
      <<"(","l","a","u","g","h","t","e","r",")">>,
      <<"(","a","p","p","l","a","u","s","e",")">>,
      <<"(","n","o"," ","s","p","e","e","c","h",")">>,
      <<"(","b","l","a","n","k"," ","a","u","d","i","o",")">> }

Upper == <<"A","B","C","D","E","F","G","H","I","J","K","L","M",
           "N","O","P","Q","R","S","T","U","V","W","X","Y","Z">>
Lower == <<"a","b","c","d","e","f","g","h","i","j","k","l","m",
           "n","o","p","q","r","s","t","u","v","w","x","y","z">>

to_lowercase_char(c) ==
    IF \E i \in 1..Len(Upper) : Upper[i] = c
    THEN Lower[CHOOSE i \in 1..Len(Upper) : Upper[i] = c]
    ELSE c

to_lowercase(t) == [i \in 1..Len(t) |-> to_lowercase_char(t[i])]

is_whitespace(c) == c \in {" ", "\t", "\n"}

RECURSIVE trim_start(_)
trim_start(t) ==
    IF t # <<>> /\ is_whitespace(Head(t)) THEN trim_start(Tail(t)) ELSE t

RECURSIVE trim_end(_)
trim_end(t) ==
    IF t # <<>> /\ is_whitespace(t[Len(t)])
    THEN trim_end(SubSeq(t, 1, Len(t) - 1))
    ELSE t

trim(t) == trim_end(trim_start(t))

\* Variant: a text that starts with a token is a hallucination.
is_hallucination_prefix(text) ==
    \E h \in hallucinations :
        LET t == to_lowercase(trim(text))
        IN  Len(t) >= Len(h) /\ SubSeq(t, 1, Len(h)) = h

is_hallucination(text) == to_lowercase(trim(text)) \in hallucinations

\* Texts the backend may return from transcribe.
BackendTexts ==
    { Hello,
      <<>>,
      <<" ","[","M","U","S","I","C","]"," ">> }

\* join(" ") over the texts of the segments.
RECURSIVE join(_)
join(segs) ==
    IF segs = <<>> THEN <<>>
    ELSE IF Len(segs) = 1 THEN segs[1].text
    ELSE segs[1].text \o <<" ">> \o join(Tail(segs))

\* ------------------------------------------------------------- callbacks
OnStateChange(state, text) == [cb |-> "on_state_change", state |-> state, text |-> text]
OnPartial(text) == [cb |-> "on_partial", state |-> "", text |-> text]
OnFinalSegment(text) == [cb |-> "on_final_segment", state |-> "", text |-> text]
OnSilence == [cb |-> "on_silence", state |-> "", text |-> <<>>]

LoadingText == <<"L">>
RecordingText == <<"R">>

\* Error messages, by the failure that produced them.
Msg(kind) == <<kind>>

\* ------------------------------------------------------------ speech gate
speech_threshold == 35          \* ListenConfig default 0.35, in percent
min_speech_duration_ms == 250   \* VadConfig default
silence_duration_ms == 1500     \* VadConfig and ListenConfig default
vad_sample_rate == 16000        \* VadConfig default
vad_chunk_size == 512           \* the chunk size VadProcessor::new fixes

VadConfig(silence_ms) ==
    [ speech_threshold |-> speech_threshold,
      silence_duration_ms |-> silence_ms,
      min_speech_duration_ms |-> min_speech_duration_ms,
      sample_rate |-> SampleRate ]

\* VadProcessor::new: Idle, both counters zero.
VadNew == [state |-> "Idle", speech_frames |-> 0, silence_frames |-> 0]

\* Variant: the frame duration is one millisecond longer.
frame_duration_ms_longer(chunk_size, sample_rate) ==
    (chunk_size * 1000) \div sample_rate + 1

\* (chunk_size as f32 / sample_rate as f32 * 1000.0) as u32
frame_duration_ms(chunk_size, sample_rate) == (chunk_size * 1000) \div sample_rate

\* Variant: a probability equal to the threshold counts as speech.
is_speech_at_threshold(probability, cfg) == probability >= cfg.speech_threshold

\* probability > self.config.speech_threshold
is_speech(probability, cfg) == probability > cfg.speech_threshold

\* Variant: every episode is long enough.
valid_always(speech_frames, fms, cfg) == TRUE

\* speech_ms >= self.config.min_speech_duration_ms
valid(speech_frames, fms, cfg) == speech_frames * fms >= cfg.min_speech_duration_ms

\* Variant: the episode is closed but the gate stays Speaking.
close_episode_keeps_speaking(v) == [v EXCEPT !.silence_frames = 0]

\* Variant: the episode is closed but the speech counter is kept.
close_episode_keeps_frames(v) == [v EXCEPT !.state = "Idle", !.silence_frames = 0]

\* The silence run reached silence_duration_ms: Idle, both counters zero.
close_episode(v) == [state |-> "Idle", speech_frames |-> 0, silence_frames |-> 0]

\* Variant: reset goes back to Idle but keeps the counters.
reset_state_only(v) == [v EXCEPT !.state = "Idle"]

\* VadProcessor::reset.
reset(v) == [state |-> "Idle", speech_frames |-> 0, silence_frames |-> 0]

\* Variant: no grace period, the first frame below the threshold closes the
\* episode.
process_chunk_no_grace(v, cfg, chunk_size, probability) ==
    LET fms == frame_duration_ms(chunk_size, cfg.sample_rate)
    IN  IF v.state = "Idle" /\ is_speech(probability, cfg) THEN
            [ vad |-> [state |-> "Speaking", speech_frames |-> 1, silence_frames |-> 0],
              event |-> "SpeechStart" ]
        ELSE IF v.state = "Idle" THEN
            [ vad |-> v, event |-> "Silence" ]
        ELSE IF is_speech(probability, cfg) THEN
            [ vad |-> [v EXCEPT !.speech_frames = @ + 1, !.silence_frames = 0],
              event |-> "SpeechContinue" ]
        ELSE
            [ vad |-> close_episode(v),
              event |-> IF valid(v.speech_frames, fms, cfg)
                        THEN "SpeechEnd" ELSE "Silence" ]

\* Variant: speech during the grace period does not reset the silence run.
process_chunk_keeps_silence(v, cfg, chunk_size, probability) ==
    LET fms == frame_duration_ms(chunk_size, cfg.sample_rate)
    IN  IF v.state = "Idle" /\ is_speech(probability, cfg) THEN
            [ vad |-> [state |-> "Speaking", speech_frames |-> 1, silence_frames |-> 0],
              event |-> "SpeechStart" ]
        ELSE IF v.state = "Idle" THEN
            [ vad |-> v, event |-> "Silence" ]
        ELSE IF is_speech(probability, cfg) THEN
            [ vad |-> [v EXCEPT !.speech_frames = @ + 1],
              event |-> "SpeechContinue" ]
        ELSE
            LET silence_frames == v.silence_frames + 1
                silence_ms == silence_frames * fms
            IN  IF silence_ms >= cfg.silence_duration_ms THEN
                    [ vad |-> close_episode(v),
                      event |-> IF valid(v.speech_frames, fms, cfg)
                                THEN "SpeechEnd" ELSE "Silence" ]
                ELSE
                    [ vad |-> [v EXCEPT !.silence_frames = silence_frames],
                      event |-> "SpeechContinue" ]

\* VadProcessor::process_chunk on the probability the detector returned:
\* the new gate and the event.
process_chunk(v, cfg, chunk_size, probability) ==
    LET fms == frame_duration_ms(chunk_size, cfg.sample_rate)
    IN  IF v.state = "Idle" /\ is_speech(probability, cfg) THEN
            [ vad |-> [state |-> "Speaking", speech_frames |-> 1, silence_frames |-> 0],
              event |-> "SpeechStart" ]
        ELSE IF v.state = "Idle" THEN
            [ vad |-> v, event |-> "Silence" ]
        ELSE IF is_speech(probability, cfg) THEN
            [ vad |-> [v EXCEPT !.speech_frames = @ + 1, !.silence_frames = 0],
              event |-> "SpeechContinue" ]
        ELSE
            LET silence_frames == v.silence_frames + 1
                silence_ms == silence_frames * fms
            IN  IF silence_ms >= cfg.silence_duration_ms THEN
                    [ vad |-> close_episode(v),
                      event |-> IF valid(v.speech_frames, fms, cfg)
                                THEN "SpeechEnd" ELSE "Silence" ]
                ELSE
                    [ vad |-> [v EXCEPT !.silence_frames = silence_frames],
                      event |-> "SpeechContinue" ]

\* --------------------------------------------------------- thread records
Idle == [pc |-> "idle", op |-> "", arg |-> "", silence |-> 0, ret |-> ""]

\* A pipeline thread that does not exist (yet), and one whose locals were dropped.
NoSession ==
    [ pc |-> "none",
      stop_flag |-> FALSE,            \* SessionHandle.stop_flag
      model_name |-> "",              \* captured by the closure
      silence_duration_ms |-> 0,      \* captured by the closure
      expired |-> FALSE,              \* start_time.elapsed() >= max_dur
      needs_load |-> FALSE,
      running |-> FALSE,              \* AudioCapture.running
      queue |-> <<>>,                 \* the ring buffer
      produced |-> 0,                 \* samples the device delivered
      samples |-> <<>>,               \* the batch read in this iteration
      vad_buffer |-> <<>>,
      pre_speech_buffer |-> <<>>,
      audio_buffer |-> <<>>,          \* AsrSession.audio_buffer
      speech_detected |-> FALSE,
      vad |-> VadNew,
      segments |-> <<>>,              \* final_segments
      result |-> "",                  \* run_pipeline's result: "Ok" or "Err"
      text |-> <<>>,                  \* its text or error message
      cb |-> <<>>,                    \* callbacks invoked, in order
      partials |-> 0,
      exit_via |-> "",                \* how the capture loop was left
      faults |-> {},                  \* failures met by the thread
      inferences |-> 0,               \* backend transcribe calls
      backend_text |-> <<>>,          \* the text the backend returned
      lazy |-> FALSE,                 \* the thread had to load the model
      speech_seen |-> FALSE,          \* a SpeechStart was observed
      stopped_early |-> FALSE,        \* stop() was called before any SpeechStart
      drained_before_speech |-> 0 ]   \* samples drained before the SpeechStart batch

NewSession(model_name, silence_ms) ==
    [NoSession EXCEPT !.pc = "check_load",
                      !.model_name = model_name,
                      !.silence_duration_ms = silence_ms]

\* The locals of run_pipeline and the closure go out of scope.
DropLocals(r) ==
    [r EXCEPT !.running = FALSE, !.queue = <<>>, !.samples = <<>>,
              !.vad_buffer = <<>>, !.pre_speech_buffer = <<>>,
              !.audio_buffer = <<>>, !.speech_detected = FALSE,
              !.vad = VadNew, !.segments = <<>>, !.needs_load = FALSE]

\* config::default_model_name: the model a fresh configuration names.
default_model_name == "parakeet"

\* DiktoEngine::new on a fresh configuration; switch_model and update_config
\* change the configured model.
Init ==
    /\ inner_lock = 0
    /\ inner_poisoned = FALSE
    /\ engine = "none"
    /\ engine_lock = 0
    /\ engine_poisoned = FALSE
    /\ config_model = default_model_name
    /\ recording = FALSE
    /\ callers = [c \in Callers |-> Idle]
    /\ calls_left = MaxCalls
    /\ samples_left = FewSamples
    /\ sess = [s \in Sessions |-> NoSession]
    /\ UnitsNotDriven

\* ---------------------------------------------------------- caller threads
Ops == {"load_model", "unload_model", "switch_model", "start_listening",
        "update_config", "is_model_loaded"}

\* The calls a caller can make: the method and its arguments.
CallInputs ==
    [op : {"load_model", "unload_model", "is_model_loaded"}, arg : {""}, silence : {0}]
    \cup [op : {"switch_model", "update_config"}, arg : ModelNames, silence : {0}]
    \cup [op : {"start_listening"}, arg : {""}, silence : SilenceChoices]

\* What each method returns when self.inner.lock() reports poisoning.
InnerPoisonedResult(op) ==
    CASE op = "unload_model" -> "Unit"
      [] op = "is_model_loaded" -> "false"
      [] OTHER -> "LockPoisoned"

\* The pipeline threads that exist, and the slots free for a new one.
Live == {s \in Sessions : sess[s].pc # "none"}
FreeSlot == CHOOSE s \in Sessions \ Live : \A u \in Sessions \ Live : s <= u

\* The caller is inside start_listening.
InStart(c) == callers[c].pc \in {"start_listening", "start_spawn"}

\* Variant: start_listening's check-and-set not serialised by the lock.
InnerLockNotTaken == TRUE

\* self.inner.lock() can be taken.
InnerLockFree == inner_lock = 0

Returns(c, v) ==
    [callers EXCEPT ![c] = [pc |-> "ret", op |-> @.op, arg |-> "", silence |-> 0, ret |-> v]]

\* No method has just returned and no thread has just ended.  A return and
\* the end of a thread are steps local to their thread: they are taken
\* right after the step that leads to them, so the value a method returns
\* and the final state of a thread are observed in the state they left.
Quiet ==
    /\ \A c \in Callers : callers[c].pc # "ret"
    /\ \A s \in Sessions : sess[s].pc # "exited"

\* A caller enters a method and takes self.inner.lock().
Call(c) ==
    \E in \in CallInputs :
        /\ Quiet
        /\ callers[c].pc = "idle"
        /\ \A d \in Callers : d < c => callers[d].pc # "idle"
        /\ calls_left > 0
        /\ in.op = "start_listening" =>
              Cardinality(Live) + Cardinality({d \in Callers : InStart(d)}) < MaxSessions
        /\ InnerLockFree
        /\ calls_left' = calls_left - 1
        /\ IF inner_poisoned
           THEN /\ callers' = [callers EXCEPT ![c] =
                                  [pc |-> "ret", op |-> in.op, arg |-> "", silence |-> 0,
                                   ret |-> InnerPoisonedResult(in.op)]]
                /\ UNCHANGED inner_lock
           ELSE /\ callers' = [callers EXCEPT ![c] =
                                  [pc |-> in.op, op |-> in.op, arg |-> in.arg,
                                   silence |-> in.silence, ret |-> ""]]
                /\ inner_lock' = c
        /\ UNCHANGED <<inner_poisoned, engine, engine_lock, engine_poisoned,
                       config_model, recording, samples_left, sess>>
    /\ UNCHANGED UnitVars

\* The method returned to the caller.
Return(c) ==
    /\ callers[c].pc = "ret"
    /\ callers' = [callers EXCEPT ![c] = Idle]
    /\ UNCHANGED <<inner_lock, inner_poisoned, engine, engine_lock, engine_poisoned,
                   config_model, recording, calls_left, samples_left, sess>>
    /\ UNCHANGED UnitVars

\* load_model: read the config, check the files, AsrEngine::load.
LoadModelLoad(c) ==
    /\ Quiet
    /\ callers[c].pc = "load_model"
    /\ \E outcome \in {"ok", "err", "panic"} :
        IF config_model \notin Downloaded THEN
            /\ outcome = "ok"
            /\ callers' = Returns(c, "NoModel")
            /\ inner_lock' = 0
            /\ UNCHANGED inner_poisoned
        ELSE IF outcome = "ok" THEN
            /\ callers' = [callers EXCEPT ![c].pc = "load_model_store",
                                          ![c].arg = config_model]
            /\ UNCHANGED <<inner_lock, inner_poisoned>>
        ELSE IF outcome = "err" THEN
            /\ callers' = Returns(c, "ModelError")
            /\ inner_lock' = 0
            /\ UNCHANGED inner_poisoned
        ELSE
            /\ callers' = Returns(c, "Panic")
            /\ inner_lock' = 0
            /\ inner_poisoned' = TRUE
    /\ UNCHANGED <<engine, engine_lock, engine_poisoned, config_model, recording,
                   calls_left, samples_left, sess>>
    /\ UNCHANGED UnitVars

\* load_model: store the loaded engine under the engine lock.
LoadModelStore(c) ==
    /\ Quiet
    /\ callers[c].pc = "load_model_store"
    /\ engine_lock = 0
    /\ IF engine_poisoned
       THEN /\ callers' = Returns(c, "LockPoisoned")
            /\ UNCHANGED engine
       ELSE /\ callers' = Returns(c, "Ok")
            /\ engine' = callers[c].arg
    /\ inner_lock' = 0
    /\ UNCHANGED <<inner_poisoned, engine_lock, engine_poisoned, config_model,
                   recording, calls_left, samples_left, sess>>
    /\ UNCHANGED UnitVars

\* Variant: unload_model empties the slot without taking the engine lock.
UnloadModelNoLock(c) ==
    /\ Quiet
    /\ callers[c].pc = "unload_model"
    /\ engine' = "none"
    /\ callers' = Returns(c, "Unit")
    /\ inner_lock' = 0
    /\ UNCHANGED <<inner_poisoned, engine_lock, engine_poisoned, config_model,
                   recording, calls_left, samples_left, sess>>
    /\ UNCHANGED UnitVars

\* unload_model: take the engine out of the slot.
UnloadModel(c) ==
    /\ Quiet
    /\ callers[c].pc = "unload_model"
    /\ engine_lock = 0
    /\ engine' = IF engine_poisoned THEN engine ELSE "none"
    /\ callers' = Returns(c, "Unit")
    /\ inner_lock' = 0
    /\ UNCHANGED <<inner_poisoned, engine_lock, engine_poisoned, config_model,
                   recording, calls_left, samples_left, sess>>
    /\ UNCHANGED UnitVars

\* Variant: switch_model without the recording check.
SwitchModelUnchecked(c) ==
    /\ Quiet
    /\ callers[c].pc = "switch_model"
    /\ \E saved \in BOOLEAN :
        IF callers[c].arg \notin Downloaded THEN
            /\ saved
            /\ callers' = Returns(c, "NoModel")
            /\ UNCHANGED <<engine, config_model>>
        ELSE
            /\ engine_lock = 0
            /\ engine' = IF engine_poisoned THEN engine ELSE "none"
            /\ config_model' = callers[c].arg
            /\ callers' = Returns(c, IF saved THEN "Ok" ELSE "ConfigError")
    /\ inner_lock' = 0
    /\ UNCHANGED <<inner_poisoned, engine_lock, engine_poisoned, recording,
                   calls_left, samples_left, sess>>
    /\ UNCHANGED UnitVars

\* switch_model, after the lock: the recording check, the file check, the
\* unload, the new name, save_config.
SwitchModel(c) ==
    /\ Quiet
    /\ callers[c].pc = "switch_model"
    /\ \E saved \in BOOLEAN :
        IF recording THEN
            /\ saved
            /\ callers' = Returns(c, "AlreadyRecording")
            /\ UNCHANGED <<engine, config_model>>
        ELSE IF callers[c].arg \notin Downloaded THEN
            /\ saved
            /\ callers' = Returns(c, "NoModel")
            /\ UNCHANGED <<engine, config_model>>
        ELSE
            /\ engine_lock = 0
            /\ engine' = IF engine_poisoned THEN engine ELSE "none"
            /\ config_model' = callers[c].arg
            /\ callers' = Returns(c, IF saved THEN "Ok" ELSE "ConfigError")
    /\ inner_lock' = 0
    /\ UNCHANGED <<inner_poisoned, engine_lock, engine_poisoned, recording,
                   calls_left, samples_left, sess>>
    /\ UNCHANGED UnitVars

\* update_config: save_config, then replace the config.
UpdateConfig(c) ==
    /\ Quiet
    /\ callers[c].pc = "update_config"
    /\ \E saved \in BOOLEAN :
        IF saved
        THEN /\ config_model' = callers[c].arg
             /\ callers' = Returns(c, "Ok")
        ELSE /\ UNCHANGED config_model
             /\ callers' = Returns(c, "ConfigError")
    /\ inner_lock' = 0
    /\ UNCHANGED <<inner_poisoned, engine, engine_lock, engine_poisoned, recording,
                   calls_left, samples_left, sess>>
    /\ UNCHANGED UnitVars

\* is_model_loaded: read the slot under both locks.
IsModelLoaded(c) ==
    /\ Quiet
    /\ callers[c].pc = "is_model_loaded"
    /\ engine_lock = 0
    /\ callers' = Returns(c, IF engine_poisoned THEN "false"
                             ELSE IF engine # "none" THEN "true" ELSE "false")
    /\ inner_lock' = 0
    /\ UNCHANGED <<inner_poisoned, engine, engine_lock, engine_poisoned, config_model,
                   recording, calls_left, samples_left, sess>>
    /\ UNCHANGED UnitVars

\* Variant: start_listening sets the recording flag before the file check.
StartCheckSetsFirst(c) ==
    /\ Quiet
    /\ callers[c].pc = "start_listening"
    /\ IF recording THEN
            /\ callers' = Returns(c, "AlreadyRecording")
            /\ inner_lock' = 0
            /\ UNCHANGED recording
       ELSE IF config_model \notin Downloaded THEN
            /\ callers' = Returns(c, "NoModel")
            /\ inner_lock' = 0
            /\ recording' = TRUE
       ELSE
            /\ callers' = [callers EXCEPT ![c].pc = "start_spawn",
                                          ![c].arg = config_model]
            /\ UNCHANGED <<inner_lock, recording>>
    /\ UNCHANGED <<inner_poisoned, engine, engine_lock, engine_poisoned, config_model,
                   calls_left, samples_left, sess>>
    /\ UNCHANGED UnitVars

\* start_listening: the recording check and the file check.
StartCheck(c) ==
    /\ Quiet
    /\ callers[c].pc = "start_listening"
    /\ IF recording THEN
            /\ callers' = Returns(c, "AlreadyRecording")
            /\ inner_lock' = 0
       ELSE IF config_model \notin Downloaded THEN
            /\ callers' = Returns(c, "NoModel")
            /\ inner_lock' = 0
       ELSE
            /\ callers' = [callers EXCEPT ![c].pc = "start_spawn",
                                          ![c].arg = config_model]
            /\ UNCHANGED inner_lock
    /\ UNCHANGED <<inner_poisoned, engine, engine_lock, engine_poisoned, config_model,
                   recording, calls_left, samples_left, sess>>
    /\ UNCHANGED UnitVars

\* start_listening: new stop flag, recording := true, release the lock,
\* spawn the thread, return the handle.
StartSpawn(c) ==
    /\ Quiet
    /\ callers[c].pc = "start_spawn"
    /\ Live # Sessions
    /\ sess' = [sess EXCEPT ![FreeSlot] =
                    NewSession(callers[c].arg, callers[c].silence)]
    /\ recording' = TRUE
    /\ inner_lock' = 0
    /\ callers' = Returns(c, "Handle")
    /\ UNCHANGED <<inner_poisoned, engine, engine_lock, engine_poisoned, config_model,
                   calls_left, samples_left>>
    /\ UNCHANGED UnitVars

\* Variant: stop() flips the flag.
StopToggle(s) ==
    /\ Quiet
    /\ sess[s].pc # "none"
    /\ sess' = [sess EXCEPT ![s].stop_flag = ~@]
    /\ UNCHANGED <<inner_lock, inner_poisoned, engine, engine_lock, engine_poisoned,
                   config_model, recording, callers, calls_left, samples_left>>
    /\ UNCHANGED UnitVars

\* SessionHandle::stop on the handle of session s.
Stop(s) ==
    /\ Quiet
    /\ sess[s].pc # "none"
    /\ sess' = [sess EXCEPT ![s].stop_flag = TRUE,
                            ![s].stopped_early = @ \/ ~sess[s].speech_seen]
    /\ UNCHANGED <<inner_lock, inner_poisoned, engine, engine_lock, engine_poisoned,
                   config_model, recording, callers, calls_left, samples_left>>
    /\ UNCHANGED UnitVars

\* -------------------------------------------------------- pipeline threads
CallerVars == <<inner_lock, inner_poisoned, config_model, callers, calls_left>>

\* The capture loop of run_pipeline.
LoopPcs == {"loop_head", "read", "vad_loop"}
\* run_pipeline, from its first statement to its return.
PipelinePcs ==
    {"rp_listening", "rp_capture_start", "rp_vad_new", "stop_processing",
     "flush", "infer", "emit"} \cup LoopPcs

\* A `?` inside the closure: the closure returns Err(e) to catch_unwind, whose
\* Ok(Err(e)) result the thread ignores.
ClosureErr(r, fault) ==
    DropLocals([r EXCEPT !.pc = "exited", !.faults = @ \cup {fault}])

\* A `?` inside run_pipeline: it returns Err(e) to the closure.
PipelineErr(r, fault) ==
    DropLocals([r EXCEPT !.pc = "rp_returned", !.result = "Err",
                         !.text = Msg(fault), !.faults = @ \cup {fault}])

\* A panic unwinds to catch_unwind.
Panic(r) ==
    DropLocals([r EXCEPT !.pc = "panicked", !.faults = @ \cup {"panic"}])

\* Variant: the lazy load reports Listening.
LazyLoadListening == "Listening"

\* The state reported while the model is loaded lazily.
LazyLoadState == "Processing"

\* needs_load: lock the engine, compare the resident model's name.
CheckLoad(s) ==
    /\ Quiet
    /\ sess[s].pc = "check_load"
    /\ engine_lock = 0
    /\ sess' = [sess EXCEPT ![s] =
          IF engine_poisoned THEN ClosureErr(@, "lock_poisoned")
          ELSE IF engine # @.model_name
               THEN [@ EXCEPT !.pc = "load_notify", !.needs_load = TRUE, !.lazy = TRUE]
               ELSE [@ EXCEPT !.pc = "create"]]
    /\ UNCHANGED <<CallerVars, samples_left, engine, engine_lock, engine_poisoned, recording>>
    /\ UNCHANGED UnitVars

\* Lazy load: report Processing and the "Loading model..." partial.
LoadNotify(s) ==
    /\ Quiet
    /\ sess[s].pc = "load_notify"
    /\ sess' = [sess EXCEPT ![s].pc = "load",
                            ![s].cb = @ \o <<OnStateChange(LazyLoadState, <<>>),
                                             OnPartial(LoadingText)>>]
    /\ UNCHANGED <<CallerVars, samples_left, engine, engine_lock, engine_poisoned, recording>>
    /\ UNCHANGED UnitVars

\* Variant: a failed lazy load leaves the recording flag set.
LoadKeepsFlag(s) ==
    /\ Quiet
    /\ sess[s].pc = "load"
    /\ \E outcome \in {"ok", "err", "panic"} :
        sess' = [sess EXCEPT ![s] =
              CASE outcome = "ok" -> [@ EXCEPT !.pc = "load_store"]
                [] outcome = "err" ->
                     DropLocals([@ EXCEPT !.pc = "load_fail_report",
                                          !.faults = @ \cup {"load"}])
                [] OTHER -> Panic(@)]
    /\ UNCHANGED <<CallerVars, samples_left, engine, engine_lock, engine_poisoned,
                   recording>>
    /\ UNCHANGED UnitVars

\* Lazy load: AsrEngine::load; on Err the recording flag is cleared.
Load(s) ==
    /\ Quiet
    /\ sess[s].pc = "load"
    /\ \E outcome \in {"ok", "err", "panic"} :
        /\ sess' = [sess EXCEPT ![s] =
              CASE outcome = "ok" -> [@ EXCEPT !.pc = "load_store"]
                [] outcome = "err" ->
                     DropLocals([@ EXCEPT !.pc = "load_fail_report",
                                          !.faults = @ \cup {"load"}])
                [] OTHER -> Panic(@)]
        /\ recording' = IF outcome = "err" THEN FALSE ELSE recording
    /\ UNCHANGED <<CallerVars, samples_left, engine, engine_lock, engine_poisoned>>
    /\ UNCHANGED UnitVars

\* Lazy load failed: report Error; the closure returns Ok(()).
LoadFailReport(s) ==
    /\ Quiet
    /\ sess[s].pc = "load_fail_report"
    /\ sess' = [sess EXCEPT ![s].pc = "exited",
                            ![s].cb = Append(@, OnStateChange("Error", Msg("load")))]
    /\ UNCHANGED <<CallerVars, samples_left, engine, engine_lock, engine_poisoned, recording>>
    /\ UNCHANGED UnitVars

\* Lazy load: store the loaded engine under the engine lock.
LoadStore(s) ==
    /\ Quiet
    /\ sess[s].pc = "load_store"
    /\ engine_lock = 0
    /\ IF engine_poisoned
       THEN /\ sess' = [sess EXCEPT ![s] = ClosureErr(@, "lock_poisoned")]
            /\ UNCHANGED engine
       ELSE /\ sess' = [sess EXCEPT ![s].pc = "create"]
            /\ engine' = sess[s].model_name
    /\ UNCHANGED <<CallerVars, samples_left, engine_lock, engine_poisoned, recording>>
    /\ UNCHANGED UnitVars

\* Create the transcription session from the resident engine.
CreateSession(s) ==
    /\ Quiet
    /\ sess[s].pc = "create"
    /\ engine_lock = 0
    /\ sess' = [sess EXCEPT ![s] =
          IF engine_poisoned THEN ClosureErr(@, "lock_poisoned")
          ELSE IF engine = "none" THEN ClosureErr(@, "no_engine")
          ELSE [@ EXCEPT !.pc = "rp_listening", !.audio_buffer = <<>>]]
    /\ UNCHANGED <<CallerVars, samples_left, engine, engine_lock, engine_poisoned, recording>>
    /\ UNCHANGED UnitVars

\* run_pipeline: report Listening.
RpListening(s) ==
    /\ Quiet
    /\ sess[s].pc = "rp_listening"
    /\ sess' = [sess EXCEPT ![s].pc = "rp_capture_start",
                            ![s].cb = Append(@, OnStateChange("Listening", <<>>))]
    /\ UNCHANGED <<CallerVars, samples_left, engine, engine_lock, engine_poisoned, recording>>
    /\ UNCHANGED UnitVars

\* run_pipeline: AudioCapture::start.
RpCaptureStart(s) ==
    /\ Quiet
    /\ sess[s].pc = "rp_capture_start"
    /\ \E outcome \in {"ok", "err", "panic"} :
        sess' = [sess EXCEPT ![s] =
            CASE outcome = "ok" -> [@ EXCEPT !.pc = "rp_vad_new", !.running = TRUE]
              [] outcome = "err" -> PipelineErr(@, "audio")
              [] OTHER -> Panic(@)]
    /\ UNCHANGED <<CallerVars, samples_left, engine, engine_lock, engine_poisoned, recording>>
    /\ UNCHANGED UnitVars

\* run_pipeline: VadProcessor::new; the clock starts.
RpVadNew(s) ==
    /\ Quiet
    /\ sess[s].pc = "rp_vad_new"
    /\ \E outcome \in {"ok", "err"} :
        sess' = [sess EXCEPT ![s] =
            IF outcome = "ok"
            THEN [@ EXCEPT !.pc = "loop_head", !.vad = VadNew]
            ELSE PipelineErr(@, "vad")]
    /\ UNCHANGED <<CallerVars, samples_left, engine, engine_lock, engine_poisoned, recording>>
    /\ UNCHANGED UnitVars

\* Loop head: the stop check, then the max-duration check.
LoopHead(s) ==
    /\ Quiet
    /\ sess[s].pc = "loop_head"
    /\ sess' = [sess EXCEPT ![s] =
          IF @.stop_flag THEN [@ EXCEPT !.pc = "stop_processing", !.exit_via = "stop"]
          ELSE IF @.expired THEN [@ EXCEPT !.pc = "stop_processing", !.exit_via = "timeout"]
          ELSE [@ EXCEPT !.pc = "read"]]
    /\ UNCHANGED <<CallerVars, samples_left, engine, engine_lock, engine_poisoned, recording>>
    /\ UNCHANGED UnitVars

\* AudioCapture::read_samples: everything queued, in order.
read_samples(queue) == [samples |-> queue, queue |-> <<>>]

\* Read the queued samples; sleep when there are none, else extend vad_buffer.
Read(s) ==
    /\ Quiet
    /\ sess[s].pc = "read"
    /\ LET got == read_samples(sess[s].queue)
       IN  sess' = [sess EXCEPT ![s] =
              IF got.samples = <<>>
              THEN [@ EXCEPT !.pc = "loop_head"]
              ELSE [@ EXCEPT !.pc = "vad_loop", !.queue = got.queue,
                             !.samples = got.samples,
                             !.vad_buffer = @ \o got.samples]]
    /\ UNCHANGED <<CallerVars, samples_left, engine, engine_lock, engine_poisoned, recording>>
    /\ UNCHANGED UnitVars

\* AsrSession::feed_samples.
feed_samples(audio_buffer, samples) == audio_buffer \o samples

\* Variant: on SpeechEnd Processing is reported before on_silence.
OnVadEventProcessingFirst(r, event) ==
    IF event = "SpeechStart" THEN
        [r EXCEPT !.speech_detected = TRUE,
                  !.speech_seen = TRUE,
                  !.drained_before_speech =
                      IF r.speech_detected THEN @
                      ELSE r.produced - Len(r.queue) - Len(r.samples),
                  !.audio_buffer = IF r.pre_speech_buffer # <<>>
                                   THEN feed_samples(@, r.pre_speech_buffer) ELSE @,
                  !.pre_speech_buffer = <<>>]
    ELSE IF event = "SpeechEnd" /\ r.speech_detected THEN
        [r EXCEPT !.pc = "flush", !.exit_via = "speech_end",
                  !.cb = @ \o <<OnStateChange("Processing", <<>>), OnSilence>>]
    ELSE r

\* The session after the gate's event for one chunk.
OnVadEvent(r, event) ==
    IF event = "SpeechStart" THEN
        [r EXCEPT !.speech_detected = TRUE,
                  !.speech_seen = TRUE,
                  !.drained_before_speech =
                      IF r.speech_detected THEN @
                      ELSE r.produced - Len(r.queue) - Len(r.samples),
                  !.audio_buffer = IF r.pre_speech_buffer # <<>>
                                   THEN feed_samples(@, r.pre_speech_buffer) ELSE @,
                  !.pre_speech_buffer = <<>>]
    ELSE IF event = "SpeechEnd" /\ r.speech_detected THEN
        [r EXCEPT !.pc = "flush", !.exit_via = "speech_end",
                  !.cb = @ \o <<OnSilence, OnStateChange("Processing", <<>>)>>]
    ELSE r

\* One chunk of vad_buffer through the gate.
VadChunk(s) ==
    /\ Quiet
    /\ sess[s].pc = "vad_loop"
    /\ Len(sess[s].vad_buffer) >= ChunkSize
    /\ \/ \E probability \in Probabilities :
            LET r == sess[s]
                out == process_chunk(r.vad, VadConfig(r.silence_duration_ms),
                                     ChunkSize, probability)
                drained == [r EXCEPT !.vad_buffer = SubSeq(@, ChunkSize + 1, Len(@)),
                                     !.vad = out.vad]
            IN  sess' = [sess EXCEPT ![s] = OnVadEvent(drained, out.event)]
       \/ sess' = [sess EXCEPT ![s] = PipelineErr(@, "vad")]
       \/ sess' = [sess EXCEPT ![s] = Panic(@)]
    /\ UNCHANGED <<CallerVars, samples_left, engine, engine_lock, engine_poisoned, recording>>
    /\ UNCHANGED UnitVars

pre_speech_max == PreSpeechSamples    \* 1 second

\* Variant: a full pre-speech buffer keeps its oldest samples.
PreSpeechPushKeepOldest(buf, samples) ==
    LET all == buf \o samples
    IN  IF Len(all) > pre_speech_max
        THEN SubSeq(all, 1, pre_speech_max)
        ELSE all

\* The pre-speech ring buffer after a batch: the last pre_speech_max samples.
PreSpeechPush(buf, samples) ==
    LET all == buf \o samples
    IN  IF Len(all) > pre_speech_max
        THEN SubSeq(all, Len(all) - pre_speech_max + 1, Len(all))
        ELSE all

\* End of the iteration: route the batch to the session or to the pre-speech
\* buffer; the throttled "Recording..." partial may be due.
Route(s) ==
    /\ Quiet
    /\ sess[s].pc = "vad_loop"
    /\ Len(sess[s].vad_buffer) < ChunkSize
    /\ \E due \in BOOLEAN :
        /\ due => sess[s].speech_detected /\ sess[s].partials < MaxPartials
        /\ sess' = [sess EXCEPT ![s] =
              IF @.speech_detected
              THEN [@ EXCEPT !.pc = "loop_head",
                             !.audio_buffer = feed_samples(@, sess[s].samples),
                             !.samples = <<>>,
                             !.cb = IF due THEN Append(@, OnPartial(RecordingText)) ELSE @,
                             !.partials = IF due THEN @ + 1 ELSE @]
              ELSE [@ EXCEPT !.pc = "loop_head",
                             !.pre_speech_buffer = PreSpeechPush(@, sess[s].samples),
                             !.samples = <<>>]]
    /\ UNCHANGED <<CallerVars, samples_left, engine, engine_lock, engine_poisoned, recording>>
    /\ UNCHANGED UnitVars

\* The loop was left by stop or timeout: report Processing.
StopProcessing(s) ==
    /\ Quiet
    /\ sess[s].pc = "stop_processing"
    /\ sess' = [sess EXCEPT ![s].pc = "flush",
                            ![s].cb = Append(@, OnStateChange("Processing", <<>>))]
    /\ UNCHANGED <<CallerVars, samples_left, engine, engine_lock, engine_poisoned, recording>>
    /\ UNCHANGED UnitVars

MAX_SAMPLES == FlushSamples

\* Variant: the cap keeps the most recent samples.
truncate_front(buf, n) == IF Len(buf) > n THEN SubSeq(buf, Len(buf) - n + 1, Len(buf)) ELSE buf

\* flush: Vec::truncate(MAX_SAMPLES).
truncate(buf, n) == IF Len(buf) > n THEN SubSeq(buf, 1, n) ELSE buf

\* Variant: flush without the empty-buffer return.
FlushBeginAlways(s) ==
    /\ Quiet
    /\ sess[s].pc = "flush"
    /\ engine_lock = 0
    /\ IF engine_poisoned THEN
            /\ sess' = [sess EXCEPT ![s] = PipelineErr(@, "flush_lock_poisoned")]
            /\ UNCHANGED engine_lock
       ELSE IF engine = "none" THEN
            /\ sess' = [sess EXCEPT ![s] = PipelineErr(@, "not_loaded")]
            /\ UNCHANGED engine_lock
       ELSE
            /\ sess' = [sess EXCEPT ![s].pc = "infer",
                          ![s].audio_buffer = truncate(@, MAX_SAMPLES)]
            /\ engine_lock' = s
    /\ UNCHANGED <<CallerVars, samples_left, engine, engine_poisoned, recording>>
    /\ UNCHANGED UnitVars

\* flush: an empty buffer returns no segments; else truncate and take the
\* engine lock.
FlushBegin(s) ==
    /\ Quiet
    /\ sess[s].pc = "flush"
    /\ IF sess[s].audio_buffer = <<>> THEN
            /\ sess' = [sess EXCEPT ![s].pc = "emit", ![s].segments = <<>>]
            /\ UNCHANGED engine_lock
       ELSE
            /\ engine_lock = 0
            /\ IF engine_poisoned THEN
                    /\ sess' = [sess EXCEPT ![s] = PipelineErr(@, "flush_lock_poisoned")]
                    /\ UNCHANGED engine_lock
               ELSE IF engine = "none" THEN
                    /\ sess' = [sess EXCEPT ![s] = PipelineErr(@, "not_loaded")]
                    /\ UNCHANGED engine_lock
               ELSE
                    /\ sess' = [sess EXCEPT ![s].pc = "infer",
                                  ![s].audio_buffer = truncate(@, MAX_SAMPLES)]
                    /\ engine_lock' = s
    /\ UNCHANGED <<CallerVars, samples_left, engine, engine_poisoned, recording>>
    /\ UNCHANGED UnitVars

\* The segments flush returns for the backend's text.
Segments(text) ==
    LET t == trim(text)
    IN  IF t = <<>> \/ is_hallucination(t) THEN <<>>
        ELSE <<[text |-> t, is_final |-> TRUE]>>

\* Variant: a failed transcribe leaves the engine lock held.
InferKeepsLock(s) ==
    /\ Quiet
    /\ sess[s].pc = "infer"
    /\ \/ \E text \in BackendTexts :
            /\ sess' = [sess EXCEPT ![s].pc = "emit",
                                    ![s].inferences = @ + 1,
                                    ![s].backend_text = text,
                                    ![s].audio_buffer = <<>>,
                                    ![s].segments = Segments(text)]
            /\ engine_lock' = 0
            /\ UNCHANGED engine_poisoned
       \/ /\ sess' = [sess EXCEPT ![s] =
                 PipelineErr([@ EXCEPT !.inferences = @ + 1], "inference")]
          /\ UNCHANGED <<engine_lock, engine_poisoned>>
       \/ /\ sess' = [sess EXCEPT ![s] = Panic([@ EXCEPT !.inferences = @ + 1])]
          /\ engine_lock' = 0
          /\ engine_poisoned' = TRUE
    /\ UNCHANGED <<CallerVars, samples_left, engine, recording>>
    /\ UNCHANGED UnitVars

\* flush: the backend's transcribe under the engine lock.
Infer(s) ==
    /\ Quiet
    /\ sess[s].pc = "infer"
    /\ \/ \E text \in BackendTexts :
            /\ sess' = [sess EXCEPT ![s].pc = "emit",
                                    ![s].inferences = @ + 1,
                                    ![s].backend_text = text,
                                    ![s].audio_buffer = <<>>,
                                    ![s].segments = Segments(text)]
            /\ UNCHANGED engine_poisoned
       \/ /\ sess' = [sess EXCEPT ![s] =
                 PipelineErr([@ EXCEPT !.inferences = @ + 1], "inference")]
          /\ UNCHANGED engine_poisoned
       \/ /\ sess' = [sess EXCEPT ![s] = Panic([@ EXCEPT !.inferences = @ + 1])]
          /\ engine_poisoned' = TRUE
    /\ engine_lock' = 0
    /\ UNCHANGED <<CallerVars, samples_left, engine, recording>>
    /\ UNCHANGED UnitVars

\* Join the text, report the final segments, stop the capture, return Ok(text).
Emit(s) ==
    /\ Quiet
    /\ sess[s].pc = "emit"
    /\ sess' = [sess EXCEPT ![s] =
          DropLocals([@ EXCEPT
              !.pc = "rp_returned", !.result = "Ok", !.text = join(sess[s].segments),
              !.cb = @ \o [i \in 1..Len(sess[s].segments) |->
                              OnFinalSegment(sess[s].segments[i].text)]])]
    /\ UNCHANGED <<CallerVars, samples_left, engine, engine_lock, engine_poisoned, recording>>
    /\ UNCHANGED UnitVars

\* Variant: the recording flag is left set after run_pipeline.
RpReturnedKeepsFlag(s) ==
    /\ Quiet
    /\ sess[s].pc = "rp_returned"
    /\ sess' = [sess EXCEPT ![s].pc = "report"]
    /\ UNCHANGED <<CallerVars, samples_left, engine, engine_lock, engine_poisoned, recording>>
    /\ UNCHANGED UnitVars

\* After run_pipeline: clear the recording flag.
RpReturned(s) ==
    /\ Quiet
    /\ sess[s].pc = "rp_returned"
    /\ recording' = FALSE
    /\ sess' = [sess EXCEPT ![s].pc = "report"]
    /\ UNCHANGED <<CallerVars, samples_left, engine, engine_lock, engine_poisoned>>
    /\ UNCHANGED UnitVars

\* Report Done{text} or Error{message}; the closure returns Ok(()).
Report(s) ==
    /\ Quiet
    /\ sess[s].pc = "report"
    /\ sess' = [sess EXCEPT ![s].pc = "exited",
          ![s].cb = Append(@, OnStateChange(
                        IF sess[s].result = "Ok" THEN "Done" ELSE "Error", sess[s].text))]
    /\ UNCHANGED <<CallerVars, samples_left, engine, engine_lock, engine_poisoned, recording>>
    /\ UNCHANGED UnitVars

\* catch_unwind returned Err(panic): clear the recording flag.
Panicked(s) ==
    /\ Quiet
    /\ sess[s].pc = "panicked"
    /\ recording' = FALSE
    /\ sess' = [sess EXCEPT ![s].pc = "panic_report"]
    /\ UNCHANGED <<CallerVars, samples_left, engine, engine_lock, engine_poisoned>>
    /\ UNCHANGED UnitVars

\* Report Error{"Internal error (thread panic)"}.
PanicReport(s) ==
    /\ Quiet
    /\ sess[s].pc = "panic_report"
    /\ sess' = [sess EXCEPT ![s].pc = "exited",
                            ![s].cb = Append(@, OnStateChange("Error", Msg("panic")))]
    /\ UNCHANGED <<CallerVars, samples_left, engine, engine_lock, engine_poisoned, recording>>
    /\ UNCHANGED UnitVars

\* The thread has ended: its slot is free for the next session.
Reap(s) ==
    /\ sess[s].pc = "exited"
    /\ sess' = [sess EXCEPT ![s] = NoSession]
    /\ UNCHANGED <<CallerVars, samples_left, engine, engine_lock, engine_poisoned, recording>>
    /\ UNCHANGED UnitVars

\* ------------------------------------------------------------- environment
buffer_capacity == SampleRate * 30

\* Variant: a full ring buffer makes room by dropping its oldest samples.
push_slice_overwrite(queue, samples, capacity) ==
    LET all == queue \o samples
    IN  IF Len(all) > capacity THEN SubSeq(all, Len(all) - capacity + 1, Len(all)) ELSE all

\* HeapProd::push_slice on a ring buffer of the given capacity: as many
\* samples as there are free slots.
push_slice(queue, samples, capacity) ==
    LET free == capacity - Len(queue)
    IN  queue \o SubSeq(samples, 1, IF Len(samples) < free THEN Len(samples) ELSE free)

\* Variant: the samples read stay in the ring buffer.
pop_slice_keeps(queue, n) ==
    [samples |-> SubSeq(queue, 1, IF n < Len(queue) THEN n ELSE Len(queue)), queue |-> queue]

\* HeapCons::pop_slice into a buffer of n slots: the oldest n samples, or all
\* of them if there are fewer.
pop_slice(queue, n) ==
    LET read == IF n < Len(queue) THEN n ELSE Len(queue)
    IN  [samples |-> SubSeq(queue, 1, read), queue |-> SubSeq(queue, read + 1, Len(queue))]

\* The hardware callback delivers k samples at the target rate.  read_samples
\* is the only reader of the queue, so the callbacks since the last read are
\* placed right before the read that observes them.
Produce(s) ==
    /\ Quiet
    /\ sess[s].running
    /\ sess[s].pc = "read"
    /\ \E k \in 1..MaxPush :
        /\ k <= samples_left
        /\ samples_left' = samples_left - k
        /\ sess' = [sess EXCEPT ![s].produced = @ + k,
              ![s].queue = push_slice(@, [i \in 1..k |-> sess[s].produced + i],
                                      buffer_capacity)]
    /\ UNCHANGED <<CallerVars, engine, engine_lock, engine_poisoned, recording>>
    /\ UNCHANGED UnitVars

\* The clock reaches max_duration.  The loop head is the only reader of the
\* clock, so the clock is advanced right before it reads.
Tick(s) ==
    /\ Quiet
    /\ sess[s].pc = "loop_head"
    /\ ~sess[s].expired
    /\ sess' = [sess EXCEPT ![s].expired = TRUE]
    /\ UNCHANGED <<CallerVars, samples_left, engine, engine_lock, engine_poisoned, recording>>
    /\ UNCHANGED UnitVars

\* ------------------------------------------------------------------- next
CallerStep(c) ==
    \/ Call(c)
    \/ LoadModelLoad(c) \/ LoadModelStore(c) \/ UnloadModel(c) \/ SwitchModel(c)
    \/ UpdateConfig(c) \/ IsModelLoaded(c) \/ StartCheck(c) \/ StartSpawn(c)

PipelineStep(s) ==
    \/ CheckLoad(s) \/ LoadNotify(s) \/ Load(s) \/ LoadFailReport(s) \/ LoadStore(s)
    \/ CreateSession(s) \/ RpListening(s) \/ RpCaptureStart(s) \/ RpVadNew(s)
    \/ LoopHead(s) \/ Read(s) \/ VadChunk(s) \/ Route(s) \/ StopProcessing(s)
    \/ FlushBegin(s) \/ Infer(s) \/ Emit(s) \/ RpReturned(s) \/ Report(s)
    \/ Panicked(s) \/ PanicReport(s)

Next ==
    \/ \E c \in Callers : Return(c) \/ CallerStep(c)
    \/ \E s \in Sessions : Reap(s) \/ PipelineStep(s) \/ Stop(s) \/ Produce(s) \/ Tick(s)

Spec == Init /\ [][Next]_vars

\* One call, made on an engine whose configured model may already be resident
\* (as after a successful load_model), and a device that delivers more audio.
InitPipeline ==
    /\ inner_lock = 0
    /\ inner_poisoned = FALSE
    /\ config_model \in Downloaded
    /\ engine \in {"none", config_model}
    /\ engine_lock = 0
    /\ engine_poisoned = FALSE
    /\ recording = FALSE
    /\ callers = [c \in Callers |-> Idle]
    /\ calls_left = 1
    /\ samples_left = MaxSamples
    /\ sess = [s \in Sessions |-> NoSession]
    /\ UnitsNotDriven

SpecPipeline == InitPipeline /\ [][Next]_vars

\* ------------------------------------------------- the units on their own
\* DiktoEngine::new, no caller and no device: the engine at rest while one
\* unit is driven on its own.
EngineAtRest ==
    /\ inner_lock = 0
    /\ inner_poisoned = FALSE
    /\ engine = "none"
    /\ engine_lock = 0
    /\ engine_poisoned = FALSE
    /\ config_model = default_model_name
    /\ recording = FALSE
    /\ callers = [c \in Callers |-> Idle]
    /\ calls_left = 0
    /\ samples_left = 0
    /\ sess = [s \in Sessions |-> NoSession]

\* ---- the gate on 512-sample chunks at 16 kHz
\* A gate right after VadProcessor::new with the default sample rate.  run
\* counts the consecutive processed chunks whose probability was not above
\* the threshold while an episode was open; was_open, probability and event
\* describe the last process_chunk call.
FrameUnit(silence_ms) ==
    [ driven |-> TRUE,
      config |-> [ speech_threshold |-> speech_threshold,
                   silence_duration_ms |-> silence_ms,
                   min_speech_duration_ms |-> min_speech_duration_ms,
                   sample_rate |-> vad_sample_rate ],
      vad |-> VadNew,
      run |-> 0,
      was_open |-> FALSE,
      probability |-> 0,
      event |-> "none" ]

InitFrames ==
    /\ EngineAtRest
    /\ vad_unit \in {FrameUnit(ms) : ms \in {32, 33, 100, silence_duration_ms}}
    /\ rb_unit = NotDriven
    /\ resample_unit = NotDriven
    /\ flush_unit = NotDriven
    /\ session_unit = NotDriven

\* process_chunk on a 512-sample chunk for which the detector returns
\* probability.
FrameProcessChunk ==
    /\ vad_unit.driven
    /\ \E probability \in Probabilities :
          LET out == process_chunk(vad_unit.vad, vad_unit.config, vad_chunk_size, probability)
              open == vad_unit.vad.state = "Speaking"
          IN  /\ out.vad.speech_frames <= MaxSpeechFrames
              /\ vad_unit' = [vad_unit EXCEPT
                  !.vad = out.vad,
                  !.run = IF open /\ probability <= vad_unit.config.speech_threshold
                          THEN @ + 1 ELSE 0,
                  !.was_open = open,
                  !.probability = probability,
                  !.event = out.event]
    /\ UNCHANGED <<EngineVars, rb_unit, resample_unit, flush_unit, session_unit>>

NextFrames == FrameProcessChunk

SpecFrames == InitFrames /\ [][NextFrames]_vars

\* ---- the speech gate (VadProcessor)
\* Configurations of the gate: the silence and minimum-speech durations are
\* zero, a whole number of frames, or fall between two frames.
GateConfigs ==
    { [ speech_threshold |-> speech_threshold,
        silence_duration_ms |-> sd,
        min_speech_duration_ms |-> ms,
        sample_rate |-> SampleRate ] :
      sd \in {0, 250, 300}, ms \in {0, min_speech_duration_ms, 400} }

\* A gate right after VadProcessor::new(cfg).  fed and events are the
\* probabilities processed and the events returned since the construction or
\* the last reset; twin is a gate constructed at the last reset and fed the
\* same probabilities.
NoGate == [state |-> "none", speech_frames |-> 0, silence_frames |-> 0]
GateUnit(cfg) ==
    [ driven |-> TRUE,
      config |-> cfg,
      vad |-> VadNew,
      chunks_left |-> MaxChunks,
      fed |-> <<>>,
      events |-> <<>>,
      reset_from |-> NoGate,      \* the gate the last reset() was called on
      twin |-> VadNew,
      twin_events |-> <<>> ]

InitGate ==
    /\ EngineAtRest
    /\ vad_unit \in {GateUnit(cfg) : cfg \in GateConfigs}
    /\ rb_unit = NotDriven
    /\ resample_unit = NotDriven
    /\ flush_unit = NotDriven
    /\ session_unit = NotDriven

\* process_chunk on a chunk for which the detector returns probability.
GateProcessChunk ==
    /\ vad_unit.driven
    /\ vad_unit.chunks_left > 0
    /\ \E probability \in Probabilities :
          LET out == process_chunk(vad_unit.vad, vad_unit.config, ChunkSize, probability)
              tw == process_chunk(vad_unit.twin, vad_unit.config, ChunkSize, probability)
          IN  vad_unit' = [vad_unit EXCEPT
                  !.vad = out.vad,
                  !.chunks_left = @ - 1,
                  !.fed = Append(@, probability),
                  !.events = Append(@, out.event),
                  !.twin = tw.vad,
                  !.twin_events = Append(@, tw.event)]
    /\ UNCHANGED <<EngineVars, rb_unit, resample_unit, flush_unit, session_unit>>

\* reset() in whatever state the gate is in.
GateReset ==
    /\ vad_unit.driven
    /\ vad_unit' = [vad_unit EXCEPT
            !.vad = reset(@),
            !.fed = <<>>,
            !.events = <<>>,
            !.reset_from = vad_unit.vad,
            !.twin = VadNew,
            !.twin_events = <<>>]
    /\ UNCHANGED <<EngineVars, rb_unit, resample_unit, flush_unit, session_unit>>

NextGate == GateProcessChunk \/ GateReset

SpecGate == InitGate /\ [][NextGate]_vars

\* ---- the text handling of flush (AsrSession::flush after transcribe)
to_uppercase_char(c) ==
    IF \E i \in 1..Len(Lower) : Lower[i] = c
    THEN Upper[CHOOSE i \in 1..Len(Lower) : Lower[i] = c]
    ELSE c
to_uppercase(t) == [i \in 1..Len(t) |-> to_uppercase_char(t[i])]

\* Texts a backend may return: every token as it is, in upper case, with its
\* first letter in upper case and surrounded by whitespace, and texts that
\* only contain, start with or resemble a token.
TokenTexts ==
    UNION { { h,
              to_uppercase(h),
              <<" ">> \o to_uppercase(h) \o <<" ", "\n">>,
              <<"\t">> \o <<h[1], to_uppercase_char(h[2])>> \o SubSeq(h, 3, Len(h)) } :
            h \in hallucinations }
OtherTexts ==
    { <<"h","i">>,
      <<>>,
      <<" "," ","\t">>,
      <<"(","p","a","u","s","e",")"," ","l","e","t"," ","m","e"," ","t","h","i","n","k">>,
      <<"T","h","i","s"," ","i","s"," ","[","a","]"," ","t","e","s","t">>,
      <<"[","u","n","c","l","e","a","r","]"," ","s","o","m","e","t","h","i","n","g"," ","h","e","r","e">>,
      <<"[","m","u","s","i","c","]"," ","o","k">>,
      <<"o","k"," ","(","m","u","s","i","c",")">>,
      <<"["," ","m","u","s","i","c"," ","]">>,
      <<"[","m","u","s","i","c">>,
      <<"(","s","i","l","e","n","c","e",")",".">>,
      <<" ","[","M","U","S","I","C","]"," ","h","i"," ">>,
      <<"m","u","s","i","c">>,
      <<"[","b","l","a","n","k"," ","a","u","d","i","o","]">>,
      <<"(","b","l","a","n","k","_","a","u","d","i","o",")">> }
FilterTexts == TokenTexts \cup OtherTexts

FlushUnit(text) == [driven |-> TRUE, text |-> text, returned |-> FALSE, segments |-> <<>>]

InitFilter ==
    /\ EngineAtRest
    /\ flush_unit \in {FlushUnit(text) : text \in FilterTexts}
    /\ vad_unit = NotDriven
    /\ rb_unit = NotDriven
    /\ resample_unit = NotDriven
    /\ session_unit = NotDriven

\* flush, from the text transcribe returned to the segments flush returns.
FlushReturn ==
    /\ flush_unit.driven
    /\ ~flush_unit.returned
    /\ flush_unit' = [flush_unit EXCEPT !.returned = TRUE,
                                        !.segments = Segments(flush_unit.text)]
    /\ UNCHANGED <<EngineVars, vad_unit, rb_unit, resample_unit, session_unit>>

NextFilter == FlushReturn

SpecFilter == InitFilter /\ [][NextFilter]_vars

\* ---- the ring buffer between the input callback and read_samples
\* A capture right after AudioCapture::start.  produced counts the samples the
\* callback was given; available is the occupied_len read_samples has read
\* (-1 when the consumer is not inside read_samples); returned is the last
\* Vec read_samples returned and delivered all of them in a row.
RbUnit(capacity) ==
    [ driven |-> TRUE,
      capacity |-> capacity,
      queue |-> <<>>,
      produced |-> 0,
      last_pushed |-> 0,          \* samples the last callback was given
      last_free |-> 0,            \* free slots it found
      available |-> -1,
      queued_at_call |-> <<>>,    \* the queue when read_samples was entered
      returned |-> <<>>,
      delivered |-> <<>> ]

InitQueue ==
    /\ EngineAtRest
    /\ rb_unit = RbUnit(RbCapacity)
    /\ vad_unit = NotDriven
    /\ resample_unit = NotDriven
    /\ flush_unit = NotDriven
    /\ session_unit = NotDriven

\* The input callback is given k samples and pushes them.
RbCallback ==
    /\ rb_unit.driven
    /\ \E k \in 1..MaxPush :
        /\ rb_unit.produced + k <= MaxSamples
        /\ rb_unit' = [rb_unit EXCEPT
              !.queue = push_slice(@, [i \in 1..k |-> rb_unit.produced + i],
                                   rb_unit.capacity),
              !.produced = @ + k,
              !.last_pushed = k,
              !.last_free = rb_unit.capacity - Len(rb_unit.queue)]
    /\ UNCHANGED <<EngineVars, vad_unit, resample_unit, flush_unit, session_unit>>

\* read_samples: occupied_len; an empty Vec is returned at once.
RbOccupiedLen ==
    /\ rb_unit.driven
    /\ rb_unit.available = -1
    /\ rb_unit' =
          IF Len(rb_unit.queue) = 0
          THEN [rb_unit EXCEPT !.returned = <<>>, !.queued_at_call = <<>>]
          ELSE [rb_unit EXCEPT !.available = Len(rb_unit.queue),
                               !.queued_at_call = rb_unit.queue]
    /\ UNCHANGED <<EngineVars, vad_unit, resample_unit, flush_unit, session_unit>>

\* read_samples: pop_slice into a buffer of `available` slots, truncate, return.
RbPopSlice ==
    /\ rb_unit.driven
    /\ rb_unit.available >= 1
    /\ LET got == pop_slice(rb_unit.queue, rb_unit.available)
       IN  rb_unit' = [rb_unit EXCEPT
              !.queue = got.queue,
              !.available = -1,
              !.returned = got.samples,
              !.delivered = @ \o got.samples]
    /\ UNCHANGED <<EngineVars, vad_unit, resample_unit, flush_unit, session_unit>>

NextQueue == RbCallback \/ RbOccupiedLen \/ RbPopSlice

SpecQueue == InitQueue /\ [][NextQueue]_vars

\* ---- the resampler of the input callback
\* Device rates: the target rate itself, 1.5 times and 3 times the target
\* rate (as 24000 Hz and 48000 Hz are to 16000 Hz).
DeviceRates == {SampleRate, (3 * SampleRate) \div 2, 3 * SampleRate}
\* Values of the mono frames.
FrameValues == {0, 1}

\* usize::saturating_sub.
saturating_sub(a, b) == IF a > b THEN a - b ELSE 0

\* The while loop of the callback.  resample_pos is kept as the whole number
\* pos = resample_pos * target_rate, so that ratio is device_rate, idx is
\* pos \div target_rate and frac is (pos % target_rate) / target_rate; a
\* sample is kept as the whole number sample * target_rate.
RECURSIVE resample_while(_, _, _, _, _)
resample_while(mono, pos, device_rate, target_rate, resampled) ==
    IF pos \div target_rate < saturating_sub(Len(mono), 1)
    THEN LET idx == pos \div target_rate
             frac == pos % target_rate
             sample == mono[idx + 1] * (target_rate - frac) + mono[idx + 2] * frac
         IN  resample_while(mono, pos + device_rate, device_rate, target_rate,
                            Append(resampled, sample))
    ELSE [resampled |-> resampled, pos |-> pos]

\* One input callback on the mono frames: what it pushes and the resample_pos
\* it leaves.
resample_callback(mono, pos, device_rate, target_rate) ==
    IF device_rate = target_rate
    THEN [resampled |-> [i \in 1..Len(mono) |-> mono[i] * target_rate], pos |-> pos]
    ELSE LET w == resample_while(mono, pos, device_rate, target_rate, <<>>)
             left == w.pos - Len(mono) * target_rate
         IN  [resampled |-> w.resampled, pos |-> IF left < 0 THEN 0 ELSE left]

\* A stream right after build_stream: resample_pos is 0.0.  mono is every
\* frame the callbacks were given and pushed every sample they pushed.
ResampleUnit(device_rate) ==
    [ driven |-> TRUE,
      device_rate |-> device_rate,
      target_rate |-> SampleRate,
      resample_pos |-> 0,
      callbacks |-> 0,
      mono |-> <<>>,
      pushed |-> <<>> ]

InitResample ==
    /\ EngineAtRest
    /\ resample_unit \in {ResampleUnit(r) : r \in DeviceRates}
    /\ vad_unit = NotDriven
    /\ rb_unit = NotDriven
    /\ flush_unit = NotDriven
    /\ session_unit = NotDriven

\* The device calls the input callback with n frames.
ResampleCallback ==
    /\ resample_unit.driven
    /\ \E n \in 1..MaxFrames :
        /\ Len(resample_unit.mono) + n <= MaxInput
        /\ \E data \in [1..n -> FrameValues] :
              LET out == resample_callback(data, resample_unit.resample_pos,
                                           resample_unit.device_rate,
                                           resample_unit.target_rate)
              IN  resample_unit' = [resample_unit EXCEPT
                      !.resample_pos = out.pos,
                      !.callbacks = @ + 1,
                      !.mono = @ \o data,
                      !.pushed = @ \o out.resampled]
    /\ UNCHANGED <<EngineVars, vad_unit, rb_unit, flush_unit, session_unit>>

NextResample == ResampleCallback

SpecResample == InitResample /\ [][NextResample]_vars

\* ---------------------------------------- the sliding-window session alone
\* TranscribeConfig values (milliseconds) the session is created with.
TranscribeConfigs ==
    [step_ms : {0, 2, 3}, length_ms : {2, 4}, keep_ms : {0, 1, 5}]

\* What whisper's full() may do with a window: fail, or return raw segment
\* texts.
WhisperOutcomes ==
    { [ok |-> FALSE, texts |-> <<>>],
      [ok |-> TRUE, texts |-> <<>>],
      [ok |-> TRUE, texts |-> << <<" ", "h", "i", " ">> >>],
      [ok |-> TRUE, texts |-> << <<" ", "\n">>, <<"o", "k">> >>] }

\* Variant: the window is the head of the buffer.
window_head(audio_buffer, length_samples) ==
    IF Len(audio_buffer) > length_samples
    THEN SubSeq(audio_buffer, 1, length_samples)
    ELSE audio_buffer

\* The window inference runs over.
window(audio_buffer, length_samples) ==
    IF Len(audio_buffer) > length_samples
    THEN SubSeq(audio_buffer, Len(audio_buffer) - length_samples + 1, Len(audio_buffer))
    ELSE audio_buffer

\* Variant: the overlap kept is the head of the buffer.
drain_keeps_head(audio_buffer, keep_samples) ==
    IF Len(audio_buffer) > keep_samples
    THEN SubSeq(audio_buffer, 1, keep_samples)
    ELSE audio_buffer

\* The buffer after trimming it to the overlap.
drain(audio_buffer, keep_samples) ==
    IF Len(audio_buffer) > keep_samples
    THEN SubSeq(audio_buffer, Len(audio_buffer) - keep_samples + 1, Len(audio_buffer))
    ELSE audio_buffer

\* The segments built from the raw texts: trimmed, empty ones skipped.
RECURSIVE window_segments(_)
window_segments(texts) ==
    IF texts = <<>> THEN <<>>
    ELSE IF trim(Head(texts)) = <<>> THEN window_segments(Tail(texts))
    ELSE <<[text |-> trim(Head(texts)), is_final |-> FALSE]>>
             \o window_segments(Tail(texts))

\* run_inference on session u with what whisper does: the session afterwards
\* and the result.
run_inference(u, outcome) ==
    LET length_samples == u.config.length_ms * SamplesPerMs
        keep_samples == u.config.keep_ms * SamplesPerMs
        w == window(u.audio_buffer, length_samples)
    IN  IF ~outcome.ok
        THEN [u |-> u, ok |-> FALSE, segments |-> <<>>, window |-> w]
        ELSE [u |-> [u EXCEPT !.audio_buffer = drain(@, keep_samples)],
              ok |-> TRUE,
              segments |-> window_segments(outcome.texts),
              window |-> w]

\* Variant: transcript joins without a separator.
RECURSIVE transcript_concat(_)
transcript_concat(final_segments) ==
    IF final_segments = <<>> THEN <<>>
    ELSE Head(final_segments) \o transcript_concat(Tail(final_segments))

\* final_segments.join(" ")
RECURSIVE transcript(_)
transcript(final_segments) ==
    IF final_segments = <<>> THEN <<>>
    ELSE IF Len(final_segments) = 1 THEN final_segments[1]
    ELSE final_segments[1] \o <<" ">> \o transcript(Tail(final_segments))

NoCall == [op |-> "none", ran |-> FALSE, ok |-> TRUE, segments |-> <<>>,
           window |-> <<>>, before |-> <<>>, count |-> 0, since |-> 0,
           since_step |-> 0]

\* The session after create_session, with the history the properties read:
\* fed numbers the samples, last describes the last call, flushed collects the
\* texts of the segments the Ok flushes returned, since_inference counts the
\* samples fed since the last inference, flush call or creation, since_step
\* those fed since the last inference feed_samples ran, the last flush that
\* returned Ok or creation.
SessionUnit(cfg) ==
    [driven |-> TRUE, config |-> cfg, audio_buffer |-> <<>>,
     final_segments |-> <<>>, samples_since_last_step |-> 0,
     fed |-> 0, last |-> NoCall, flushed |-> <<>>, since_inference |-> 0,
     since_step |-> 0]

InitSliding ==
    /\ EngineAtRest
    /\ vad_unit = NotDriven
    /\ rb_unit = NotDriven
    /\ resample_unit = NotDriven
    /\ flush_unit = NotDriven
    /\ \E cfg \in TranscribeConfigs : session_unit = SessionUnit(cfg)

\* feed_samples(samples) with what whisper does if inference runs.
session_feed_samples(u, n, outcome) ==
    LET samples == [i \in 1..n |-> u.fed + i]
        appended == [u EXCEPT !.audio_buffer = @ \o samples,
                              !.samples_since_last_step = @ + n,
                              !.fed = @ + n]
        step_samples == u.config.step_ms * SamplesPerMs
        r == run_inference([appended EXCEPT !.samples_since_last_step = 0], outcome)
        since == u.since_inference + n
        since_step == u.since_step + n
    IN  IF appended.samples_since_last_step < step_samples
        THEN [appended EXCEPT
                 !.since_inference = since,
                 !.since_step = since_step,
                 !.last = [op |-> "feed", ran |-> FALSE, ok |-> TRUE,
                           segments |-> <<>>, window |-> <<>>,
                           before |-> appended.audio_buffer,
                           count |-> appended.samples_since_last_step,
                           since |-> since, since_step |-> since_step]]
        ELSE [r.u EXCEPT
                 !.since_inference = 0,
                 !.since_step = 0,
                 !.last = [op |-> "feed", ran |-> TRUE, ok |-> r.ok,
                           segments |-> r.segments, window |-> r.window,
                           before |-> appended.audio_buffer,
                           count |-> appended.samples_since_last_step,
                           since |-> since, since_step |-> since_step]]

\* flush() with what whisper does if inference runs.
session_flush(u, outcome) ==
    LET r == run_inference(u, outcome)
        segments == [i \in 1..Len(r.segments) |->
                        [r.segments[i] EXCEPT !.is_final = TRUE]]
        texts == [i \in 1..Len(segments) |-> segments[i].text]
    IN  IF u.audio_buffer = <<>>
        THEN [u EXCEPT
                 !.since_inference = 0,
                 !.since_step = 0,
                 !.last = [op |-> "flush", ran |-> FALSE, ok |-> TRUE,
                           segments |-> <<>>, window |-> <<>>,
                           before |-> u.audio_buffer,
                           count |-> u.samples_since_last_step,
                           since |-> u.since_inference,
                           since_step |-> u.since_step]]
        ELSE IF ~r.ok
        THEN [u EXCEPT
                 !.since_inference = 0,
                 !.last = [op |-> "flush", ran |-> TRUE, ok |-> FALSE,
                           segments |-> <<>>, window |-> r.window,
                           before |-> u.audio_buffer,
                           count |-> u.samples_since_last_step,
                           since |-> u.since_inference,
                           since_step |-> u.since_step]]
        ELSE [r.u EXCEPT
                 !.final_segments = @ \o texts,
                 !.audio_buffer = <<>>,
                 !.samples_since_last_step = 0,
                 !.flushed = @ \o texts,
                 !.since_inference = 0,
                 !.since_step = 0,
                 !.last = [op |-> "flush", ran |-> TRUE, ok |-> TRUE,
                           segments |-> segments, window |-> r.window,
                           before |-> u.audio_buffer,
                           count |-> u.samples_since_last_step,
                           since |-> u.since_inference,
                           since_step |-> u.since_step]]

SlidingFeed ==
    /\ session_unit.driven
    /\ \E n \in 0..MaxPush, outcome \in WhisperOutcomes :
        /\ session_unit.fed + n <= MaxFed
        /\ session_unit' = session_feed_samples(session_unit, n, outcome)
    /\ UNCHANGED <<EngineVars, vad_unit, rb_unit, resample_unit, flush_unit>>

SlidingFlush ==
    /\ session_unit.driven
    /\ \E outcome \in WhisperOutcomes :
        session_unit' = session_flush(session_unit, outcome)
    /\ UNCHANGED <<EngineVars, vad_unit, rb_unit, resample_unit, flush_unit>>

NextSliding == SlidingFeed \/ SlidingFlush

SpecSliding == InitSliding /\ [][NextSliding]_vars

\* ------------------------------------------------- what a session reported
IsStateChange(e) == e.cb = "on_state_change"
IsTerminal(e) == e.cb = "on_state_change" /\ e.state \in {"Done", "Error"}
IsFinalSegment(e) == e.cb = "on_final_segment"

\* The states session s delivered through on_state_change, in order.
States(s) ==
    LET q == SelectSeq(sess[s].cb, IsStateChange)
    IN  [i \in 1..Len(q) |-> q[i].state]
\* The terminal reports and the final segments of session s.
Terminals(s) == SelectSeq(sess[s].cb, IsTerminal)
Finals(s) == SelectSeq(sess[s].cb, IsFinalSegment)

\* The thread of session s has been spawned and has not yet executed a
\* recording.store(false).
HoldingPcs ==
    {"check_load", "load_notify", "load", "load_store", "create", "rp_returned",
     "panicked"} \cup PipelinePcs
Holding(s) == sess[s].pc \in HoldingPcs

\* SessionHandle::is_active.
is_active(s) == ~sess[s].stop_flag

\* ------------------------------------------------------------------ claims

\* C1: when the background thread of an accepted session has ended, on any
\* exit path, the recording flag it set is false again (unless a later
\* accepted session holds it).
C1_RecordingCleared ==
    \A s \in Sessions :
        sess[s].pc = "exited" => (~recording \/ \E u \in Sessions : Holding(u))

\* C2: every accepted session reports exactly one terminal state: never two
\* while it runs, and exactly one when its thread has ended.
C2_ExactlyOneTerminal ==
    \A s \in Sessions :
        /\ Len(Terminals(s)) <= 1
        /\ sess[s].pc = "exited" => Len(Terminals(s)) = 1

Runs ==
    {<<"Listening", "Processing", "Done">>, <<"Listening", "Processing", "Error">>,
     <<"Listening", "Error">>,
     <<"Processing", "Listening", "Processing", "Done">>,
     <<"Processing", "Listening", "Processing", "Error">>,
     <<"Processing", "Listening", "Error">>, <<"Processing", "Error">>}
IsPrefix(p, q) == Len(p) <= Len(q) /\ SubSeq(q, 1, Len(p)) = p

\* C4 (as amended): the states of one session are, in order, Processing first
\* exactly when the backend is loaded lazily, then Listening, then at most one
\* Processing, then at most one terminal state; Done only after Listening,
\* Processing; Error directly after the lazy-load Processing or after
\* Listening when that step fails.
C4_StateSequence ==
    \A s \in Sessions :
        /\ \E r \in Runs : IsPrefix(States(s), r)
        /\ States(s) # <<>> => (States(s)[1] = "Processing" <=> sess[s].lazy)
C4_Witness ==
    \E s \in Sessions :
        /\ sess[s].pc = "exited"
        /\ States(s) = <<"Processing", "Listening", "Processing", "Done">>

\* C4 (as stated): the states of one session match Listening, (Processing,
\* Listening)*, Processing, Done or Error; the first state is Listening.
C4_ListeningFirst ==
    \A s \in Sessions :
        LET q == States(s)
        IN  \A i \in 1..Len(q) :
              /\ i = 1 => q[i] = "Listening"
              /\ (i > 1 /\ q[i] = "Listening") => q[i - 1] = "Processing"
              /\ q[i] = "Processing" => (i > 1 /\ q[i - 1] = "Listening")
              /\ q[i] \in {"Done", "Error"} =>
                    (i > 1 /\ q[i - 1] = "Processing" /\ i = Len(q))

\* C5: with a poisoned engine lock the methods return (load_model with the
\* lock error, never Ok), and a session that met the poisoned lock ends with
\* one reported Error and with the recording flag cleared.
C5_PoisonedLockReported ==
    /\ \A c \in Callers :
          (callers[c].pc = "ret" /\ callers[c].op = "load_model" /\ engine_poisoned)
              => callers[c].ret # "Ok"
    /\ \A s \in Sessions :
          (sess[s].pc = "exited" /\ "lock_poisoned" \in sess[s].faults) =>
              /\ Len(Terminals(s)) = 1
              /\ Terminals(s)[1].state = "Error"
              /\ ~recording \/ \E u \in Sessions : Holding(u)

\* C6: while a session is active (its thread runs with the recording flag
\* true), no step of load_model, unload_model or switch_model removes or
\* replaces the resident backend.
C6_BackendKeptDuringSession ==
    [][(recording /\ engine # "none" /\ (\E s \in Sessions : Holding(s))
           /\ \E c \in Callers : UnloadModel(c) \/ LoadModelStore(c) \/ SwitchModel(c))
        => engine' = engine]_vars

\* C7: with a resident backend that returns the text Hello whenever it is
\* invoked and no failure, a session whose gate closed a valid speech episode
\* reports Listening, Processing, Done{Hello} and exactly one final segment
\* Hello, however the samples were split into read batches.
C7_EpisodeTranscribed ==
    \A s \in Sessions :
        (/\ sess[s].pc = "exited"
         /\ sess[s].exit_via = "speech_end"
         /\ ~sess[s].lazy
         /\ sess[s].faults = {}
         /\ sess[s].inferences > 0 => sess[s].backend_text = Hello) =>
            /\ States(s) = <<"Listening", "Processing", "Done">>
            /\ Terminals(s)[1].text = Hello
            /\ Finals(s) = <<OnFinalSegment(Hello)>>

\* C8 (as amended): if the capture loop is left through its stop check and no
\* SpeechStart was observed in the session, the session reports Listening,
\* Processing, Done{""} (after the lazy-load Processing, if any), no final
\* segment, and the backend is never invoked.
C8_StopBeforeSpeech ==
    \A s \in Sessions :
        (sess[s].pc = "exited" /\ sess[s].exit_via = "stop" /\ ~sess[s].speech_seen) =>
            /\ States(s) = (IF sess[s].lazy THEN <<"Processing">> ELSE <<>>)
                              \o <<"Listening", "Processing", "Done">>
            /\ Terminals(s) = <<OnStateChange("Done", <<>>)>>
            /\ Finals(s) = <<>>
            /\ sess[s].inferences = 0
C8_Witness ==
    \E s \in Sessions :
        /\ sess[s].pc = "exited" /\ sess[s].exit_via = "stop"
        /\ sess[s].stopped_early /\ ~sess[s].speech_seen
        /\ samples_left < MaxSamples

\* C8 (as stated): if stop() was called before any SpeechStart was observed,
\* then (with a resident backend and no failure) the session reports
\* Listening, Processing, Done{""}, no final segment, and the backend is
\* never invoked.
C8_StopCalledBeforeSpeech ==
    \A s \in Sessions :
        (/\ sess[s].pc = "exited"
         /\ sess[s].stopped_early
         /\ ~sess[s].lazy
         /\ sess[s].faults = {}) =>
            /\ States(s) = <<"Listening", "Processing", "Done">>
            /\ Terminals(s) = <<OnStateChange("Done", <<>>)>>
            /\ Finals(s) = <<>>
            /\ sess[s].inferences = 0

\* C9: the thread of an accepted session on which stop() was called, or whose
\* loop was left by stop or timeout, does not end without having reported a
\* terminal state.
C9_TerminalAfterStop ==
    \A s \in Sessions :
        (sess[s].pc = "exited"
           /\ (sess[s].stop_flag \/ sess[s].exit_via \in {"stop", "timeout"})) =>
            Len(Terminals(s)) >= 1

\* C10: stop() makes is_active() false, a second stop() changes nothing, and
\* no step of any operation makes is_active() of a session true again.
C10_StopIdempotentOneWay ==
    [][\A s \in Sessions :
          /\ Stop(s) => sess'[s].stop_flag
          /\ (Stop(s) /\ ~is_active(s)) => UNCHANGED vars
          /\ (~is_active(s) /\ sess'[s].pc # "none") => sess'[s].stop_flag]_vars
C10_Witness ==
    \E s \in Sessions : sess[s].pc \in LoopPcs /\ ~is_active(s)

\* C11: once a session has reported a terminal state, is_active() of its
\* handle is false, also when stop() was never called.
C11_InactiveAfterTerminal ==
    \A s \in Sessions : Len(Terminals(s)) >= 1 => ~is_active(s)

C13_SwitchUnloadsAndDefers ==
    [][/\ \A c \in Callers :
            (SwitchModel(c) /\ callers'[c].ret = "Ok") =>
                (engine' = "none" /\ config_model' = callers[c].arg)
       /\ \A c \in Callers :
            StartSpawn(c) =>
                \A s \in Sessions :
                    (sess[s].pc = "none" /\ sess'[s].pc # "none") =>
                        sess'[s].model_name = config_model
       /\ \A s \in Sessions :
            (LoadStore(s) /\ engine' # engine) => engine' = sess[s].model_name
       /\ (engine = "none" /\ engine' # "none") =>
            ((\E s \in Sessions : LoadStore(s)) \/ (\E c \in Callers : LoadModelStore(c)))
      ]_vars

\* The messages of the errors start_listening and its closure return as
\* DiktoError: AlreadyRecording, NoModel, Config("Lock poisoned").
OrchestrationMsgs ==
    {Msg("AlreadyRecording"), Msg("NoModel"), Msg("no_engine"), Msg("lock_poisoned"),
     Msg("LockPoisoned")}

\* C14: the step by which start_listening returns an error (AlreadyRecording,
\* NoModel, lock failure) spawns no thread, invokes no callback and leaves
\* the recording flag as it was; and no callback of any session ever carries
\* an orchestration error.
C14_ErrorsAreSynchronous ==
    /\ [](\A s \in Sessions : \A i \in 1..Len(sess[s].cb) :
              sess[s].cb[i].text \notin OrchestrationMsgs)
    /\ [][\A c \in Callers :
            (/\ callers[c].pc # "ret"
             /\ callers'[c].pc = "ret"
             /\ callers'[c].op = "start_listening"
             /\ callers'[c].ret # "Handle") =>
                (sess' = sess /\ recording' = recording)]_vars
C14_Witness ==
    /\ \E c \in Callers : /\ callers[c].pc = "ret"
                          /\ callers[c].op = "start_listening"
                          /\ callers[c].ret = "NoModel"
    /\ \A s \in Sessions : sess[s].pc = "none"
    /\ ~recording

\* C15: a failed lazy load clears the recording flag and changes nothing
\* else of the engine, and that session reports Processing, Error; a
\* start_listening that then finds the flag false and the model on disk is
\* accepted, and its thread, finding its model not resident, loads again.
C15_LoadFailureRecoverable ==
    /\ [](\A s \in Sessions :
              (sess[s].pc = "exited" /\ "load" \in sess[s].faults) =>
                  /\ States(s) = <<"Processing", "Error">>
                  /\ Terminals(s) = <<OnStateChange("Error", Msg("load"))>>)
    /\ [][/\ \A s \in Sessions :
               (sess[s].pc = "load" /\ sess'[s].pc = "load_fail_report") =>
                   /\ recording' = FALSE
                   /\ UNCHANGED <<engine, engine_lock, engine_poisoned,
                                  inner_lock, inner_poisoned, config_model>>
          /\ \A c \in Callers :
               (StartCheck(c) /\ ~recording /\ config_model \in Downloaded) =>
                   callers'[c].pc = "start_spawn"
          /\ \A s \in Sessions :
               (CheckLoad(s) /\ ~engine_poisoned /\ engine # sess[s].model_name) =>
                   sess'[s].pc = "load_notify"]_vars
\* A session's load has failed and the next session is already loading.
C15_Witness ==
    \E s, u \in Sessions :
        /\ sess[s].pc = "load_fail_report"
        /\ sess[u].pc = "load"
        /\ recording

\* C16: a thread runs backend inference exactly while it holds the engine
\* lock, so at most one thread runs inference at a time, on a resident
\* backend; and while a thread runs inference no step of any thread replaces
\* or drops the resident backend.
C16_InferenceUnderLock ==
    /\ [](/\ \A s \in Sessions : sess[s].pc = "infer" <=> engine_lock = s
          /\ Cardinality({s \in Sessions : sess[s].pc = "infer"}) <= 1
          /\ (\E s \in Sessions : sess[s].pc = "infer") =>
                 (engine # "none" /\ ~engine_poisoned))
    /\ [][(\E s \in Sessions : sess[s].pc = "infer") => engine' = engine]_vars
\* A thread runs inference while unload_model waits for the engine lock.
C16_Witness ==
    /\ \E s \in Sessions : sess[s].pc = "infer"
    /\ \E c \in Callers : callers[c].pc = "unload_model"

\* The backend instances in memory: the one in the engine slot, and every
\* one AsrEngine::load has returned to a thread that has not stored it yet.
Instances ==
    (IF engine # "none" THEN 1 ELSE 0)
    + Cardinality({c \in Callers : callers[c].pc = "load_model_store"})
    + Cardinality({s \in Sessions : sess[s].pc = "load_store"})

\* C17: at every moment at most one backend instance exists in memory, also
\* while load_model or a lazy load replaces a resident backend and while
\* load_model runs concurrently with a lazy load.
C17_OneBackendInstance == Instances <= 1

\* The samples session s has drained from the queue so far, and the samples
\* a..b of the captured stream.
Drained(s) == sess[s].produced - Len(sess[s].queue)
Run(a, b) == [i \in 1..(b - a + 1) |-> a + i - 1]
Min(a, b) == IF a < b THEN a ELSE b

\* C18: once speech is detected, at the end of every iteration of the
\* capture loop and whenever the loop hands the buffer to flush, the session
\* buffer is one contiguous run of the captured stream: the retained
\* pre-speech samples, then every drained batch from the SpeechStart batch
\* onward, up to the last drained sample.
C18_BufferIsContiguousRun ==
    \A s \in Sessions :
        (sess[s].speech_detected
           /\ sess[s].pc \in {"loop_head", "read", "stop_processing", "flush"}) =>
            sess[s].audio_buffer =
                Run(sess[s].drained_before_speech
                       - Min(pre_speech_max, sess[s].drained_before_speech) + 1,
                    Drained(s))

\* C19: at the end of every capture-loop iteration before speech is
\* detected, the pre-speech buffer is exactly the most recent
\* min(pre_speech_max, n) of the n samples drained so far, in order.
C19_PreSpeechKeepsMostRecent ==
    \A s \in Sessions :
        (sess[s].pc \in {"loop_head", "read"} /\ ~sess[s].speech_detected) =>
            /\ Len(sess[s].pre_speech_buffer) <= pre_speech_max
            /\ sess[s].pre_speech_buffer =
                  Run(Drained(s) - Min(pre_speech_max, Drained(s)) + 1, Drained(s))

\* More than pre_speech_max samples were drained before any speech.
C19_Witness ==
    \E s \in Sessions :
        /\ sess[s].pc = "loop_head"
        /\ ~sess[s].speech_detected
        /\ Drained(s) > pre_speech_max
        /\ Len(sess[s].pre_speech_buffer) = pre_speech_max

\* C20: when flush hands the accumulated buffer of n samples to the backend,
\* the backend receives exactly its first min(n, MAX_SAMPLES) samples.
C20_FlushKeepsFirstSamples ==
    [][\A s \in Sessions :
          (sess[s].pc = "flush" /\ sess'[s].pc = "infer") =>
              LET accumulated == sess[s].audio_buffer
              IN  sess'[s].audio_buffer =
                      SubSeq(accumulated, 1, Min(Len(accumulated), MAX_SAMPLES))]_vars

\* The backend is running on a buffer that was cut: samples were drained and
\* fed after the last one it holds.
C20_Witness ==
    \E s \in Sessions :
        /\ sess[s].pc = "infer"
        /\ sess[s].exit_via \in {"stop", "timeout"}
        /\ Len(sess[s].audio_buffer) = MAX_SAMPLES
        /\ sess[s].audio_buffer[MAX_SAMPLES] < Drained(s)

\* ------------------------------------------------- the gate on its own
\* The frame duration of the driven gate, and whether the i-th probability
\* fed to it was above the threshold.
GateFrameMs == frame_duration_ms(ChunkSize, vad_unit.config.sample_rate)
Above(i) == vad_unit.fed[i] > vad_unit.config.speech_threshold
SeqOf(n, e) == [i \in 1..n |-> e]

\* The number of frames below the threshold after which the silence run
\* reaches silence_duration_ms.
SilenceChunks ==
    CHOOSE k \in 1..(MaxChunks + 1) :
        /\ k * GateFrameMs >= vad_unit.config.silence_duration_ms
        /\ \A j \in 1..(k - 1) : j * GateFrameMs < vad_unit.config.silence_duration_ms

\* C22: as long as no probability fed to a gate that starts Idle is above
\* the threshold, every event is Silence and the gate is Idle with both
\* counters zero.
C22_SilenceStaysIdle ==
    (vad_unit.driven /\ \A i \in 1..Len(vad_unit.fed) : ~Above(i)) =>
        /\ vad_unit.events = SeqOf(Len(vad_unit.fed), "Silence")
        /\ vad_unit.vad = [state |-> "Idle", speech_frames |-> 0, silence_frames |-> 0]

\* MaxChunks chunks of silence, one of them exactly at the threshold.
C22_Witness ==
    /\ vad_unit.driven
    /\ Len(vad_unit.fed) = MaxChunks
    /\ \A i \in 1..MaxChunks : ~Above(i)
    /\ \E i \in 1..MaxChunks : vad_unit.fed[i] = vad_unit.config.speech_threshold

\* The gate was fed exactly N frames above the threshold and then the
\* SilenceChunks frames below it that close the episode, and N frames are at
\* least min_speech_duration_ms.
IsFullEpisode(N) ==
    /\ vad_unit.driven
    /\ Len(vad_unit.fed) = N + SilenceChunks
    /\ \A i \in 1..N : Above(i)
    /\ \A i \in (N + 1)..(N + SilenceChunks) : ~Above(i)
    /\ N * GateFrameMs >= vad_unit.config.min_speech_duration_ms

\* C23 (as amended): a full speech episode of N frames above the threshold
\* followed by the K frames below it that make the silence run reach
\* silence_duration_ms yields one SpeechStart, then N-1 SpeechContinue for the
\* speech frames and K-1 SpeechContinue for the grace period, then one
\* SpeechEnd.
C23_FullEpisodeEvents ==
    \A N \in 1..MaxChunks :
        IsFullEpisode(N) =>
            vad_unit.events =
                <<"SpeechStart">> \o SeqOf(N - 1 + SilenceChunks - 1, "SpeechContinue")
                    \o <<"SpeechEnd">>

\* A full episode with a grace period of at least one frame.
C23_Witness ==
    \E N \in 2..MaxChunks : IsFullEpisode(N) /\ SilenceChunks >= 2

\* C23 (as stated): the complete event sequence of a full episode is one
\* SpeechStart, N-1 SpeechContinue, one SpeechEnd.
C23_OnlySpeechFramesContinue ==
    \A N \in 1..MaxChunks :
        IsFullEpisode(N) =>
            vad_unit.events =
                <<"SpeechStart">> \o SeqOf(N - 1, "SpeechContinue") \o <<"SpeechEnd">>

\* The index of the last SpeechStart in the events (0 if none), the frames
\* above the threshold fed since then, and the frames below the threshold at
\* the end of what was fed.
LastStart(events) ==
    IF \E i \in 1..Len(events) : events[i] = "SpeechStart"
    THEN CHOOSE i \in 1..Len(events) :
            /\ events[i] = "SpeechStart"
            /\ \A j \in (i + 1)..Len(events) : events[j] # "SpeechStart"
    ELSE 0
SpeechFramesSince(i, fed) ==
    Cardinality({j \in i..Len(fed) : j >= 1 /\ fed[j] > vad_unit.config.speech_threshold})
SilenceRun(fed) ==
    Cardinality({j \in 1..Len(fed) :
        \A k \in j..Len(fed) : fed[k] <= vad_unit.config.speech_threshold})

\* C24: a frame below the threshold closes the open episode exactly when the
\* silence run reaches silence_duration_ms; if the frames above the threshold
\* of that episode, grace-period frames not counted, last less than
\* min_speech_duration_ms, the closing event is Silence, not SpeechEnd, and
\* the gate is Idle with both counters zero.
C24_ShortEpisodeDiscarded ==
    [][(/\ vad_unit.driven
        /\ vad_unit.vad.state = "Speaking"
        /\ Len(vad_unit'.fed) = Len(vad_unit.fed) + 1
        /\ vad_unit'.fed[Len(vad_unit'.fed)] <= vad_unit.config.speech_threshold) =>
          LET fed == vad_unit'.fed
              event == vad_unit'.events[Len(vad_unit'.events)]
              closes == SilenceRun(fed) * GateFrameMs >= vad_unit.config.silence_duration_ms
              short == SpeechFramesSince(LastStart(vad_unit.events), fed) * GateFrameMs
                          < vad_unit.config.min_speech_duration_ms
          IN  /\ closes <=> vad_unit'.vad.state = "Idle"
              /\ (closes /\ short) =>
                    /\ event = "Silence"
                    /\ vad_unit'.vad =
                          [state |-> "Idle", speech_frames |-> 0, silence_frames |-> 0]
              /\ ~closes => event = "SpeechContinue"]_vars

\* An episode was discarded although, counting its grace-period frames, it
\* lasted at least min_speech_duration_ms.
C24_Witness ==
    /\ vad_unit.driven
    /\ Len(vad_unit.events) >= 4
    /\ vad_unit.events[Len(vad_unit.events)] = "Silence"
    /\ vad_unit.events[Len(vad_unit.events) - 1] = "SpeechContinue"
    /\ LET start == LastStart(vad_unit.events)
       IN  /\ start >= 1
           /\ \A j \in (start + 1)..(Len(vad_unit.events) - 1) :
                 vad_unit.events[j] = "SpeechContinue"
           /\ \E j \in (start + 1)..(Len(vad_unit.fed) - 1) : ~Above(j)
           /\ (Len(vad_unit.fed) - start) * GateFrameMs
                 >= vad_unit.config.min_speech_duration_ms
           /\ SpeechFramesSince(start, vad_unit.fed) * GateFrameMs
                 < vad_unit.config.min_speech_duration_ms

\* Whether an episode is open after the first k events.
RECURSIVE EpisodeOpen(_, _)
EpisodeOpen(events, k) ==
    IF k = 0 THEN FALSE
    ELSE IF events[k] = "SpeechStart" THEN TRUE
    ELSE IF events[k] \in {"SpeechEnd", "Silence"} THEN FALSE
    ELSE EpisodeOpen(events, k - 1)

\* C25: every process_chunk call returns exactly one event; SpeechContinue
\* and SpeechEnd are returned only while an episode is open, that is after a
\* SpeechStart and before the event that closes its episode, so every
\* SpeechEnd follows a SpeechStart of its own episode and two SpeechEnd have a
\* SpeechStart between them.
C25_EventsFollowEpisodes ==
    vad_unit.driven =>
        /\ Len(vad_unit.events) = Len(vad_unit.fed)
        /\ \A j \in 1..Len(vad_unit.events) :
              /\ vad_unit.events[j] \in
                    {"SpeechStart", "SpeechContinue", "SpeechEnd", "Silence"}
              /\ vad_unit.events[j] \in {"SpeechContinue", "SpeechEnd"} =>
                    EpisodeOpen(vad_unit.events, j - 1)
        /\ \A i, j \in 1..Len(vad_unit.events) :
              (i < j /\ vad_unit.events[i] = "SpeechEnd" /\ vad_unit.events[j] = "SpeechEnd") =>
                  \E k \in (i + 1)..(j - 1) : vad_unit.events[k] = "SpeechStart"

\* Two episodes, each with a grace period, ended with SpeechEnd.
C25_Witness ==
    /\ vad_unit.driven
    /\ Cardinality({j \in 1..Len(vad_unit.events) : vad_unit.events[j] = "SpeechEnd"}) >= 2
    /\ \E j \in 2..Len(vad_unit.events) :
          vad_unit.events[j] = "SpeechContinue" /\ ~Above(j)

\* C26: an Idle gate has both counters zero; a Speaking gate has
\* speech_frames >= 1 and, when silence_duration_ms > 0, a silence run shorter
\* than silence_duration_ms; silence_frames is zero when the gate enters
\* Speaking and after every frame above the threshold.
C26_GateInvariant ==
    /\ []( vad_unit.driven =>
            /\ vad_unit.vad.state \in {"Idle", "Speaking"}
            /\ vad_unit.vad.state = "Idle" =>
                  vad_unit.vad.speech_frames = 0 /\ vad_unit.vad.silence_frames = 0
            /\ vad_unit.vad.state = "Speaking" =>
                  /\ vad_unit.vad.speech_frames >= 1
                  /\ vad_unit.config.silence_duration_ms > 0 =>
                        vad_unit.vad.silence_frames * GateFrameMs
                            < vad_unit.config.silence_duration_ms
                  /\ vad_unit.config.silence_duration_ms = 0 =>
                        vad_unit.vad.silence_frames = 0 )
    /\ [][(/\ vad_unit.driven
           /\ Len(vad_unit'.fed) = Len(vad_unit.fed) + 1
           /\ vad_unit'.fed[Len(vad_unit'.fed)] > vad_unit.config.speech_threshold) =>
              /\ vad_unit'.vad.state = "Speaking"
              /\ vad_unit'.vad.silence_frames = 0
              /\ vad_unit'.vad.speech_frames =
                    (IF vad_unit.vad.state = "Idle" THEN 0 ELSE vad_unit.vad.speech_frames) + 1]_vars

\* A frame above the threshold has just ended a grace period of two frames.
C26_Witness ==
    /\ vad_unit.driven
    /\ vad_unit.vad.state = "Speaking"
    /\ vad_unit.vad.silence_frames = 0
    /\ vad_unit.vad.speech_frames >= 2
    /\ Len(vad_unit.fed) >= 4
    /\ Above(Len(vad_unit.fed))
    /\ ~Above(Len(vad_unit.fed) - 1)
    /\ ~Above(Len(vad_unit.fed) - 2)

\* C27: after reset(), in whatever state it was called, the gate returns the
\* events and goes through the states of a freshly constructed gate with the
\* same configuration fed the same probabilities.
C27_ResetIsFresh ==
    (vad_unit.driven /\ vad_unit.reset_from # NoGate) =>
        /\ vad_unit.vad = vad_unit.twin
        /\ vad_unit.events = vad_unit.twin_events

\* reset() was called in a grace period, and the gate has since gone through
\* another episode.
C27_Witness ==
    /\ vad_unit.driven
    /\ vad_unit.reset_from.state = "Speaking"
    /\ vad_unit.reset_from.silence_frames >= 1
    /\ Len(vad_unit.events) >= 2
    /\ vad_unit.events[1] = "SpeechStart"
    /\ vad_unit.events[Len(vad_unit.events)] \in {"SpeechEnd", "Silence"}

\* ------------------------------------------- the text handling on its own
\* A text without its surrounding whitespace, and equality up to case.
Stripped(t) ==
    LET kept == {i \in 1..Len(t) : t[i] \notin {" ", "\t", "\n"}}
    IN  IF kept = {} THEN <<>>
        ELSE SubSeq(t, CHOOSE i \in kept : \A j \in kept : i <= j,
                       CHOOSE i \in kept : \A j \in kept : i >= j)
EqIgnoreCase(a, b) ==
    /\ Len(a) = Len(b)
    /\ \A i \in 1..Len(a) : to_lowercase_char(a[i]) = to_lowercase_char(b[i])

\* C21: flush returns no segment if and only if the backend's text without its
\* surrounding whitespace is empty or equals, up to case and as a whole, one of
\* the 13 hallucination tokens; otherwise it returns exactly one segment,
\* final, with the text without its surrounding whitespace.
C21_HallucinationFilter ==
    (flush_unit.driven /\ flush_unit.returned) =>
        LET t == Stripped(flush_unit.text)
            filtered == t = <<>> \/ \E h \in hallucinations : EqIgnoreCase(t, h)
        IN  /\ Cardinality(hallucinations) = 13
            /\ flush_unit.segments = <<>> <=> filtered
            /\ ~filtered => flush_unit.segments = <<[text |-> t, is_final |-> TRUE]>>

\* A text that starts with a token in upper case, within whitespace, was
\* returned as one segment.
C21_Witness ==
    /\ flush_unit.driven
    /\ flush_unit.returned
    /\ Len(flush_unit.segments) = 1
    /\ flush_unit.text # Stripped(flush_unit.text)
    /\ \E h \in hallucinations :
          /\ Len(Stripped(flush_unit.text)) > Len(h)
          /\ EqIgnoreCase(SubSeq(Stripped(flush_unit.text), 1, Len(h)), h)
          /\ SubSeq(Stripped(flush_unit.text), 1, Len(h)) # h

\* ------------------------------------------------ the ring buffer on its own
\* C28: the queue never holds more than buffer_capacity samples; a callback
\* given k samples when f slots are free enqueues the first min(k, f) of them
\* behind the samples already queued, which it leaves as they are, and drops
\* the rest.
C28_QueueBoundedDropsNewest ==
    /\ [](rb_unit.driven => Len(rb_unit.queue) <= rb_unit.capacity)
    /\ [][(rb_unit.driven /\ rb_unit'.produced > rb_unit.produced) =>
            LET k == rb_unit'.produced - rb_unit.produced
                f == rb_unit.capacity - Len(rb_unit.queue)
                given == [i \in 1..k |-> rb_unit.produced + i]
            IN  rb_unit'.queue = rb_unit.queue \o SubSeq(given, 1, Min(k, f))]_vars

\* The last callback found fewer free slots than it had samples, but at
\* least one.
C28_Witness ==
    /\ rb_unit.driven
    /\ rb_unit.last_free >= 1
    /\ rb_unit.last_pushed > rb_unit.last_free
    /\ Len(rb_unit.queue) = rb_unit.capacity

\* C29: read_samples returns the samples that were queued when it was called,
\* in order, and removes exactly those; it returns an empty Vec when nothing
\* is queued; all the Vecs returned, in a row, are produced samples in the
\* order of production, none of them twice.
C29_ReadDrainsInOrder ==
    /\ [](rb_unit.driven =>
            /\ \A i \in 1..Len(rb_unit.delivered) :
                  rb_unit.delivered[i] \in 1..rb_unit.produced
            /\ \A i, j \in 1..Len(rb_unit.delivered) :
                  i < j => rb_unit.delivered[i] < rb_unit.delivered[j])
    /\ [][(rb_unit.driven /\ rb_unit'.produced = rb_unit.produced) =>
            \/ /\ rb_unit.available = -1            \* called on an empty queue
               /\ rb_unit'.available = -1
               /\ rb_unit.queue = <<>>
               /\ rb_unit'.returned = <<>>
               /\ rb_unit'.queue = rb_unit.queue
               /\ rb_unit'.delivered = rb_unit.delivered
            \/ /\ rb_unit.available = -1            \* called, samples are queued
               /\ rb_unit'.available >= 1
               /\ rb_unit'.queue = rb_unit.queue
               /\ rb_unit'.delivered = rb_unit.delivered
            \/ /\ rb_unit.available >= 1            \* returns
               /\ rb_unit'.available = -1
               /\ rb_unit'.returned = rb_unit.queued_at_call
               /\ rb_unit.queue = rb_unit'.returned \o rb_unit'.queue
               /\ rb_unit'.delivered = rb_unit.delivered \o rb_unit'.returned]_vars

\* A second read returned samples while the callback had pushed more after
\* the call, and a sample had been dropped before.
C29_Witness ==
    /\ rb_unit.driven
    /\ rb_unit.available = -1
    /\ rb_unit.returned # <<>>
    /\ rb_unit.queue # <<>>
    /\ Len(rb_unit.delivered) > Len(rb_unit.returned)
    /\ \E i \in 1..(Len(rb_unit.delivered) - 1) :
          rb_unit.delivered[i + 1] > rb_unit.delivered[i] + 1

\* -------------------------------------------------- the resampler on its own
\* C30: when the device rate differs from the target rate, the samples pushed
\* for a stream of frames delivered in several callbacks are the samples
\* pushed for the same frames delivered in one callback.
C30_CallbackSplitInvisible ==
    (resample_unit.driven /\ resample_unit.device_rate # resample_unit.target_rate) =>
        resample_unit.pushed =
            resample_callback(resample_unit.mono, 0, resample_unit.device_rate,
                              resample_unit.target_rate).resampled

\* ------------------------------------------------------ sliding-window claims
StepSamples == session_unit.config.step_ms * SamplesPerMs
LengthSamples == session_unit.config.length_ms * SamplesPerMs
KeepSamples == session_unit.config.keep_ms * SamplesPerMs

\* The last n samples of q.
LastOf(q, n) == SubSeq(q, Len(q) - Min(Len(q), n) + 1, Len(q))

FeedOutcome(count) ==
    LET u == session_unit
    IN  /\ u.last.ran <=> count >= StepSamples
        /\ u.last.ran =>
              /\ u.samples_since_last_step = 0
              /\ u.last.window = LastOf(u.last.before, LengthSamples)
        /\ ~u.last.ran =>
              /\ u.last.segments = <<>>
              /\ u.last.ok
              /\ u.audio_buffer = u.last.before

\* C31 (as amended): feed_samples runs inference if and only if the number
\* of samples fed since the last inference that feed_samples ran, the last
\* flush that returned Ok, or session creation is at least step_ms * 16; it
\* then resets the count to zero and runs over the last
\* min(buffer length, length_ms * 16) samples of the buffer; otherwise it
\* returns no segments and only appends.
C31_FeedRunsInferenceAtStep ==
    (session_unit.driven /\ session_unit.last.op = "feed")
        => FeedOutcome(session_unit.last.since_step)

\* A feed ran inference over a window shorter than the buffer, after an
\* earlier feed that only appended.
C31_Witness ==
    /\ session_unit.driven
    /\ session_unit.last.op = "feed"
    /\ session_unit.last.ran
    /\ Len(session_unit.last.window) < Len(session_unit.last.before)
    /\ Len(session_unit.last.window) > 0
    /\ StepSamples > MaxPush

\* C31 as stated: the count is of the samples fed since the last inference,
\* the last flush or session creation.
C31_CountSinceAnyInference ==
    (session_unit.driven /\ session_unit.last.op = "feed")
        => FeedOutcome(session_unit.last.since)

\* C32: after every successful inference triggered by feed_samples the
\* buffer holds exactly the last min(previous length, keep_ms * 16) samples it
\* held before the inference, in order; every earlier sample is discarded.
C32_OverlapKept ==
    (/\ session_unit.driven
     /\ session_unit.last.op = "feed"
     /\ session_unit.last.ran
     /\ session_unit.last.ok)
        => session_unit.audio_buffer = LastOf(session_unit.last.before, KeepSamples)

\* A successful inference of feed_samples cut the buffer down to a non-empty
\* overlap.
C32_Witness ==
    /\ session_unit.driven
    /\ session_unit.last.op = "feed"
    /\ session_unit.last.ran
    /\ session_unit.last.ok
    /\ KeepSamples > 0
    /\ Len(session_unit.last.before) > KeepSamples
    /\ Len(session_unit.audio_buffer) = KeepSamples

\* The texts joined by single spaces, built from the right.
RECURSIVE SpaceJoined(_)
SpaceJoined(texts) ==
    IF texts = <<>> THEN <<>>
    ELSE IF Len(texts) = 1 THEN texts[1]
    ELSE SpaceJoined(SubSeq(texts, 1, Len(texts) - 1)) \o <<" ">> \o texts[Len(texts)]

\* C33: after any sequence of feed_samples and flush calls, transcript()
\* equals the texts of all segments returned by successful flush calls so
\* far, in order, joined by single spaces, and segments returned by
\* feed_samples are never part of it; a successful flush returns only
\* segments with is_final true and leaves the buffer empty and the step
\* counter zero; flush on an empty buffer runs no inference and returns
\* nothing.
C33_TranscriptIsFlushedText ==
    session_unit.driven =>
        LET u == session_unit
        IN  /\ transcript(u.final_segments) = SpaceJoined(u.flushed)
            /\ (u.last.op = "feed" => \A i \in 1..Len(u.last.segments) :
                                          ~u.last.segments[i].is_final)
            /\ (u.last.op = "flush" /\ u.last.ok) =>
                  /\ \A i \in 1..Len(u.last.segments) : u.last.segments[i].is_final
                  /\ u.audio_buffer = <<>>
                  /\ u.samples_since_last_step = 0
            /\ (u.last.op = "flush" /\ u.last.before = <<>>) =>
                  /\ ~u.last.ran
                  /\ u.last.ok
                  /\ u.last.segments = <<>>

\* Two flushes have returned text and a later feed_samples returned a
\* segment that the transcript does not hold.
C33_Witness ==
    /\ session_unit.driven
    /\ Len(session_unit.flushed) >= 2
    /\ session_unit.last.op = "feed"
    /\ session_unit.last.segments # <<>>
    /\ transcript(session_unit.final_segments) = SpaceJoined(session_unit.flushed)
    /\ Len(transcript(session_unit.final_segments)) > Len(session_unit.flushed[1])

\* ------------------------------------------------------- callback order
IsProcessing(e) == e.cb = "on_state_change" /\ e.state = "Processing"
IsListening(e) == e.cb = "on_state_change" /\ e.state = "Listening"
IsRecordingPartial(e) == e.cb = "on_partial" /\ e.text = RecordingText
IsSilence(e) == e.cb = "on_silence"

\* C34: within one session callbacks follow the capture loop's program
\* order: no callback is invoked after the terminal state; every
\* on_final_segment call comes after the last Processing and before the
\* terminal state; "Recording..." partials come only after Listening and
\* before the final Processing; on_silence is invoked at most once, only on
\* the natural SpeechEnd path, immediately before Processing.
C34_CallbackOrder ==
    \A s \in Sessions :
        LET q == sess[s].cb
            n == Len(q)
        IN  /\ \A i \in 1..n : IsTerminal(q[i]) => i = n
            /\ \A i \in 1..n : IsFinalSegment(q[i]) =>
                  /\ \E j \in 1..(i - 1) : IsProcessing(q[j])
                  /\ \A j \in (i + 1)..n : ~IsProcessing(q[j])
                  /\ \A j \in 1..(i - 1) : ~IsTerminal(q[j])
            /\ \A i \in 1..n : IsRecordingPartial(q[i]) =>
                  \E l \in 1..(i - 1) :
                      /\ IsListening(q[l])
                      /\ \A j \in (l + 1)..(i - 1) : ~IsProcessing(q[j])
            /\ Len(SelectSeq(q, IsSilence)) <= 1
            /\ \A i \in 1..n : IsSilence(q[i]) =>
                  /\ sess[s].exit_via = "speech_end"
                  /\ i < n
                  /\ IsProcessing(q[i + 1])

\* A lazily loaded session that sent a "Recording..." partial, ended on
\* silence and reported a final segment and Done.
C34_Witness ==
    \E s \in Sessions :
        LET q == sess[s].cb
        IN  /\ Len(q) >= 8
            /\ IsProcessing(q[1])
            /\ \E i \in 1..Len(q) : IsRecordingPartial(q[i])
            /\ \E i \in 1..Len(q) : IsSilence(q[i])
            /\ \E i \in 1..Len(q) : IsFinalSegment(q[i])
            /\ q[Len(q)].cb = "on_state_change" /\ q[Len(q)].state = "Done"

\* ------------------------------------------------- interrupted silence
\* The number of consecutive frames below the threshold that end at frame j.
BelowRunAt(j) ==
    Cardinality({i \in 1..j : \A k \in i..j : ~Above(k)})

\* C35: while the gate is Speaking, a run of k consecutive frames below the
\* threshold with k times the frame duration below silence_duration_ms,
\* followed by a frame above the threshold, returns only SpeechContinue, keeps
\* the gate Speaking, returns no second SpeechStart and resets the silence
\* counter to zero, so that an episode is closed only by a silence run that by
\* itself lasts silence_duration_ms.
C35_InterruptedSilence ==
    vad_unit.driven =>
        LET fed == vad_unit.fed
            events == vad_unit.events
            n == Len(fed)
        IN  /\ \A a \in 1..n, b \in 1..n :
                  (/\ a < b
                   /\ EpisodeOpen(events, a)
                   /\ Above(a)
                   /\ Above(b)
                   /\ \A i \in (a + 1)..(b - 1) : ~Above(i)
                   /\ (b - 1 - a) * GateFrameMs < vad_unit.config.silence_duration_ms)
                    => /\ \A i \in (a + 1)..b : events[i] = "SpeechContinue"
                       /\ EpisodeOpen(events, b)
            /\ (n >= 2 /\ Above(n) /\ EpisodeOpen(events, n - 1)) =>
                  /\ vad_unit.vad.state = "Speaking"
                  /\ vad_unit.vad.silence_frames = 0
            /\ \A j \in 1..n :
                  (EpisodeOpen(events, j - 1) /\ events[j] \in {"SpeechEnd", "Silence"}) =>
                      BelowRunAt(j) * GateFrameMs >= vad_unit.config.silence_duration_ms

\* Two silence runs interrupted by speech that together last
\* silence_duration_ms, and the episode is still open.
C35_Witness ==
    /\ vad_unit.driven
    /\ vad_unit.vad.state = "Speaking"
    /\ LET n == Len(vad_unit.fed)
       IN  /\ n >= 5
           /\ vad_unit.events[1] = "SpeechStart"
           /\ \A i \in 2..n : vad_unit.events[i] = "SpeechContinue"
           /\ \E b \in 3..(n - 1) :
                 /\ Above(b) /\ ~Above(b - 1) /\ ~Above(n)
                 /\ \A i \in (b + 1)..n : ~Above(i)
                 /\ (BelowRunAt(b - 1) + BelowRunAt(n)) * GateFrameMs
                       >= vad_unit.config.silence_duration_ms

\* ------------------------------------------------- frames of 32 ms
\* The ordinal of the chunk below the threshold that closes an episode: the
\* smallest k >= 1 with 32 * k >= silence_duration_ms.
ClosingChunk ==
    CHOOSE k \in 1..(vad_unit.config.silence_duration_ms + 1) :
        /\ 32 * k >= vad_unit.config.silence_duration_ms
        /\ \A j \in 1..(k - 1) : 32 * j < vad_unit.config.silence_duration_ms

\* C36: with 512-sample chunks at 16 kHz the frame duration is 32 ms and an
\* open episode is closed on exactly the k-th consecutive chunk below the
\* threshold, k the smallest integer with 32 * k >= silence_duration_ms
\* (47 for 1500 ms), never earlier and never later; a chunk whose
\* probability equals the threshold counts as below the threshold.
C36_ClosedOnKthFrame ==
    (vad_unit.driven /\ vad_unit.event # "none") =>
        LET u == vad_unit
            below == u.probability <= u.config.speech_threshold
        IN  /\ frame_duration_ms(vad_chunk_size, u.config.sample_rate) = 32
            /\ (u.config.silence_duration_ms = silence_duration_ms) => ClosingChunk = 47
            /\ (u.was_open /\ below) =>
                  /\ u.run <= ClosingChunk
                  /\ u.event \in {"SpeechEnd", "Silence"} <=> u.run = ClosingChunk
                  /\ u.run = ClosingChunk <=> u.vad.state = "Idle"
                  /\ u.run < ClosingChunk => u.event = "SpeechContinue"
            /\ (u.was_open /\ ~below) =>
                  /\ u.event = "SpeechContinue"
                  /\ u.vad.state = "Speaking"
            /\ (~u.was_open /\ below) => u.event = "Silence"

\* With the default 1500 ms the 47th chunk of a silence run, of probability
\* equal to the threshold, closed a valid episode.
C36_Witness ==
    /\ vad_unit.driven
    /\ vad_unit.config.silence_duration_ms = silence_duration_ms
    /\ vad_unit.event = "SpeechEnd"
    /\ vad_unit.run = 47
    /\ vad_unit.probability = vad_unit.config.speech_threshold

\* ------------------------------------------------------- lock discipline
\* The thread can take a step of its own.
CallerCanStep(c) == ENABLED (Return(c) \/ CallerStep(c))
SessionCanStep(s) == ENABLED (Reap(s) \/ PipelineStep(s))

ReportingPcs == {"load_fail_report", "report", "panic_report"}
Reporting(s) == sess[s].pc \in ReportingPcs

\* The step delivers the terminal state of session s.
DeliversTerminal(s) ==
    /\ Len(sess'[s].cb) = Len(sess[s].cb) + 1
    /\ IsTerminal(sess'[s].cb[Len(sess'[s].cb)])

\* C38 (as amended): on every path that reports a terminal state the thread
\* clears the recording flag before it delivers the terminal state, and
\* between the clearing and the delivery the flag becomes true again only
\* when another start_listening is accepted; so is_recording() observed from
\* inside the terminal callback is false, and a start_listening issued from
\* it is not rejected with AlreadyRecording, unless a new session was accepted
\* in between.
C38_ClearedBeforeTerminal ==
    [][\A s \in Sessions :
          /\ DeliversTerminal(s) => Reporting(s)
          /\ (~Reporting(s) /\ Reporting(s)') => ~recording'
          /\ (Reporting(s) /\ ~recording /\ recording') =>
                \E u \in Sessions \ {s} :
                    sess[u].pc = "none" /\ sess'[u].pc = "check_load"]_vars

\* A session cleared the flag and delivered its terminal state while a
\* session accepted in between holds the flag.
C38_Witness ==
    \E s \in Sessions, u \in Sessions :
        /\ s # u
        /\ sess[s].pc = "exited"
        /\ Len(Terminals(s)) = 1
        /\ recording
        /\ Holding(u)
        /\ sess[u].cb = <<>>

\* C38 as stated: the recording flag is false whenever a terminal state is
\* delivered.
C38_FlagFalseInTerminalCallback ==
    [][\A s \in Sessions : DeliversTerminal(s) => ~recording]_vars

\* ---------------------------------------------------- routing of batches
\* The step ends the handling of the batch session s drained, without a
\* failure of the thread.
BatchHandled(s) ==
    /\ sess[s].pc = "vad_loop"
    /\ sess'[s].pc # "vad_loop"
    /\ sess'[s].faults = sess[s].faults
ToSession(s) ==
    sess'[s].audio_buffer = sess[s].audio_buffer \o sess[s].samples
ToPreSpeech(s) ==
    /\ sess'[s].pre_speech_buffer # sess[s].pre_speech_buffer
    /\ sess'[s].pre_speech_buffer =
          LastOf(sess[s].pre_speech_buffer \o sess[s].samples, pre_speech_max)

\* C39: speech detection is latched for the session: once a SpeechStart has
\* been observed every batch drained afterwards is appended to the session
\* buffer and none to the pre-speech buffer, also after the gate has returned
\* to Idle by discarding a too-short episode; each drained batch goes to
\* exactly one of the two buffers, never both.
C39_BatchRoutedOnce ==
    [][\A s \in Sessions : BatchHandled(s) =>
          /\ ToSession(s) # ToPreSpeech(s)
          /\ sess[s].speech_seen =>
                /\ ToSession(s)
                /\ sess'[s].pre_speech_buffer = sess[s].pre_speech_buffer]_vars

\* C40: switch_model is all-or-nothing: whenever it returns an error
\* (AlreadyRecording, NoModel, or a Config error from persisting the choice)
\* the resident backend and the configured model name in memory are the same
\* as before the call.
C40_SwitchAllOrNothing ==
    [][\A c \in Callers :
          (/\ callers[c].pc = "switch_model"
           /\ callers'[c].pc = "ret"
           /\ callers'[c].ret \in {"AlreadyRecording", "NoModel", "ConfigError"}) =>
              /\ engine' = engine
              /\ config_model' = config_model]_vars
====
